---- MODULE Spec2Model ----
(***************************************************************************)
(* A model of the test-code generators of the repository.                  *)
(*                                                                         *)
(* Text is modelled as a sequence of lines (the text split at "\n"), and a *)
(* line as a sequence of segments.  A segment is either a literal fragment *)
(* of a template or one character of an interpolated name, so that the     *)
(* character-level conversions of the code (str.title, str.lower) are      *)
(* computed as the code computes them.                                     *)
(***************************************************************************)
EXTENDS Integers, Sequences, FiniteSets, TLC

VARIABLES
    config,     \* TestCodeGenerator.config of test_automation_generator.py
    result,     \* outcome of the latest generate() call
    prev,       \* outcome of the generate() call before it
    clock,      \* the wall clock (datetime.now()), in ticks
    tfOut,      \* outcome of the latest generate_test_file() call
    astGen,     \* the AST-based TestCodeGenerator of test_generator.py
    ta,         \* the TestCodeGenerator of test_automation.py
    taOut,      \* outcome of the latest generate_*_test call on ta
    dirs,       \* the directories that exist in the file system
    files,      \* the files that exist, with their contents
    sinkOut,    \* outcome of the latest persistence operation
    templates,  \* TestGenerator.templates of test_automation/test_generator.py
    suiteOut,   \* outcome of the latest generate_test_suite() call
    batchOut,   \* outcome of the latest run of example_save_to_files()
    cliOut,     \* outcome of the latest run of generate_tests.py
    retry,      \* a call of a function wrapped by retry_on_failure
    wait,       \* a call of wait_until
    calc,       \* a Calculator of example_calculator.py and what its caller holds
    ui,         \* a UITestHelper and the drivers it has created
    testOut     \* outcome of the latest TestGenerator.generate_test() call

\* The variables of the generators of test_automation_generator.py,
\* test_generator.py and test_automation.py, and the file system.
genVars == <<config, result, prev, clock, tfOut, astGen, ta, taOut, dirs, files, sinkOut>>

\* The variables of the template generator, the scripts and the helpers.
toolVars == <<templates, suiteOut, batchOut, cliOut, retry>>

\* The variables of wait_until, the Calculator and the UITestHelper.
helperVars == <<wait, calc, ui, testOut>>

vars == <<genVars, toolVars, helperVars>>

-----------------------------------------------------------------------------
(* Characters and the str conversions the generators use.                  *)

LowerLetters ==
    <<"a","b","c","d","e","f","g","h","i","j","k","l","m",
      "n","o","p","q","r","s","t","u","v","w","x","y","z">>

UpperLetters ==
    <<"A","B","C","D","E","F","G","H","I","J","K","L","M",
      "N","O","P","Q","R","S","T","U","V","W","X","Y","Z">>

IsLower(c) == \E i \in DOMAIN LowerLetters : LowerLetters[i] = c

IsUpper(c) == \E i \in DOMAIN UpperLetters : UpperLetters[i] = c

ToUpper(c) ==
    IF IsLower(c)
    THEN UpperLetters[CHOOSE i \in DOMAIN LowerLetters : LowerLetters[i] = c]
    ELSE c

ToLower(c) ==
    IF IsUpper(c)
    THEN LowerLetters[CHOOSE i \in DOMAIN UpperLetters : UpperLetters[i] = c]
    ELSE c

\* str.lower(): every character lower-cased.
StrLower(s) == [i \in DOMAIN s |-> ToLower(s[i])]

\* str.title(), as CPython computes it: one left-to-right scan that keeps
\* whether the previous character was cased.  A cased character that follows
\* an uncased one (or starts the string) is upper-cased, a cased character
\* that follows a cased one is lower-cased, anything else is kept.
RECURSIVE TitleScan(_, _, _)
TitleScan(s, i, previousIsCased) ==
    IF i > Len(s) THEN <<>>
    ELSE LET c == s[i]
             cased == IsLower(c) \/ IsUpper(c)
             out == IF ~cased THEN c
                    ELSE IF previousIsCased THEN ToLower(c) ELSE ToUpper(c)
         IN  <<out>> \o TitleScan(s, i + 1, cased)

StrCapitalize(s) ==
    [i \in DOMAIN s |-> IF i = 1 THEN ToUpper(s[i]) ELSE ToLower(s[i])]

Title(s) == TitleScan(s, 1, FALSE)

-----------------------------------------------------------------------------
(* test_automation_generator.py: the enumerations and TestConfig.          *)

TestFramework == {"pytest", "unittest", "jest", "junit"}

TestType == {"unit", "integration", "e2e", "api"}

\* A member of the TestFramework enumeration, and a plain str: the two are
\* never equal in Python, whatever the text of the str.
Member(v) == [tag |-> "TestFramework", value |-> v]

RawStr(v) == [tag |-> "str", value |-> v]

\* The test names and module paths the model draws from.
TestNames ==
    { <<"u","s","e","r","_","s","e","r","v","i","c","e">>,
      <<"s","a","m","p","l","e","_","t","e","s","t">>,
      <<"g","e","t","H","T","T","P","2","x">> }

ModulePaths == {"mymodule"}

TestConfig ==
    [framework : {Member(v) : v \in TestFramework},
     test_type : TestType,
     test_name : TestNames,
     module_path : ModulePaths,
     include_fixtures : BOOLEAN,
     include_mocks : BOOLEAN,
     include_parametrize : BOOLEAN]

\* One text line made of one literal.
Ln(s) == <<s>>

Blank == <<>>

MockImport == <<"from unittest.mock import ", "Mock", ", ", "patch", ", ", "MagicMock">>


-----------------------------------------------------------------------------
(* test_automation_generator.py: the four renderers.  Each returns the     *)
(* lines of "\n".join(code_lines).                                         *)

GeneratePytest(cfg) ==
    LET name == cfg.test_name
        imports ==
            <<Ln("import pytest")>>
            \o (IF cfg.include_mocks THEN <<MockImport>> ELSE <<>>)
            \o << <<"from ", cfg.module_path, " import *">> >>
        header ==
            << Ln("\"\"\""),
               <<"Test module for ", cfg.module_path>>,
               <<"Test Type: ", cfg.test_type>>,
               Ln("\"\"\""),
               Blank >>
            \o imports
            \o <<Blank, Blank>>
        fixture ==
            IF cfg.include_fixtures
            THEN << Ln("@pytest.fixture"),
                    <<"def ", "sample_fixture", "():">>,
                    Ln("    \"\"\"Fixture for test setup\"\"\""),
                    Ln("    # Setup code here"),
                    Ln("    data = {'key': 'value'}"),
                    Ln("    yield data"),
                    Ln("    # Teardown code here"),
                    Blank,
                    Blank >>
            ELSE <<>>
        fixture_param == IF cfg.include_fixtures THEN <<"sample_fixture">> ELSE <<>>
        basic ==
            << <<"def ", "test_">> \o name \o <<"(">> \o fixture_param \o <<"):">>,
               <<"    \"\"\"Test ">> \o name \o <<"\"\"\"">>,
               Ln("    # Arrange"),
               Ln("    expected = None"),
               Ln("    "),
               Ln("    # Act"),
               Ln("    result = None"),
               Ln("    "),
               Ln("    # Assert"),
               Ln("    assert result == expected"),
               Blank >>
        parametrized ==
            IF cfg.include_parametrize
            THEN << Blank,
                    Ln("@pytest.mark.parametrize(\"input_val,expected\", ["),
                    Ln("    (1, 1),"),
                    Ln("    (2, 2),"),
                    Ln("    (3, 3),"),
                    Ln("])"),
                    <<"def ", "test_">> \o name \o <<"_parametrized", "(input_val, expected):">>,
                    <<"    \"\"\"Parametrized test for ">> \o name \o <<"\"\"\"">>,
                    Ln("    # Test logic here"),
                    Ln("    assert input_val == expected"),
                    Blank >>
            ELSE <<>>
        api ==
            IF cfg.test_type = "api"
            THEN << Blank,
                    <<"def ", "test_">> \o name \o <<"_api_call", "():">>,
                    <<"    \"\"\"Test API call for ">> \o name \o <<"\"\"\"">>,
                    Ln("    # Mock API response"),
                    <<"    with ", "patch", "('requests.get')", " as mock_get:">>,
                    Ln("        mock_get.return_value.status_code = 200"),
                    Ln("        mock_get.return_value.json.return_value = {'success': True}"),
                    Ln("        "),
                    Ln("        # Call API"),
                    Ln("        # response = api_function()"),
                    Ln("        "),
                    Ln("        # Assertions"),
                    Ln("        mock_get.assert_called_once()"),
                    Blank >>
            ELSE <<>>
    IN  header \o fixture \o basic \o parametrized \o api

\* A faulty variant of ClassName: the title-cased name followed by "Test".
ClassNameSuffixed(cfg) == Title(cfg.test_name) \o <<"Test">>

\* The name of the class the unittest and JUnit renderers declare.
ClassName(cfg) == <<"Test">> \o Title(cfg.test_name)

GenerateUnittest(cfg) ==
    LET name == cfg.test_name
        imports ==
            <<Ln("import unittest")>>
            \o (IF cfg.include_mocks THEN <<MockImport>> ELSE <<>>)
            \o << <<"from ", cfg.module_path, " import *">> >>
        body ==
            << Ln("\"\"\""),
               <<"Test module for ", cfg.module_path>>,
               <<"Test Type: ", cfg.test_type>>,
               Ln("\"\"\""),
               Blank >>
            \o imports
            \o << Blank,
                  Blank,
                  <<"class ">> \o ClassName(cfg) \o <<"(unittest.TestCase)", ":">>,
                  <<"    \"\"\"Test cases for ">> \o name \o <<"\"\"\"">>,
                  Blank,
                  <<"    ", "def ", "setUp", "(self)", ":">>,
                  Ln("        \"\"\"Set up test fixtures\"\"\""),
                  Ln("        self.test_data = {'key': 'value'}"),
                  Blank,
                  <<"    ", "def ", "tearDown", "(self)", ":">>,
                  Ln("        \"\"\"Tear down test fixtures\"\"\""),
                  Ln("        pass"),
                  Blank,
                  <<"    ", "def ", "test_">> \o name \o <<"(self)", ":">>,
                  <<"        \"\"\"Test ">> \o name \o <<"\"\"\"">>,
                  Ln("        # Arrange"),
                  Ln("        expected = None"),
                  Ln("        "),
                  Ln("        # Act"),
                  Ln("        result = None"),
                  Ln("        "),
                  Ln("        # Assert"),
                  Ln("        self.assertEqual(result, expected)"),
                  Blank >>
        api ==
            IF cfg.test_type = "api"
            THEN << <<"    @", "patch", "('requests.get')">>,
                    <<"    ", "def ", "test_">> \o name \o <<"_api_call", "(self, mock_get):">>,
                    <<"        \"\"\"Test API call for ">> \o name \o <<"\"\"\"">>,
                    Ln("        # Setup mock"),
                    Ln("        mock_get.return_value.status_code = 200"),
                    Ln("        mock_get.return_value.json.return_value = {'success': True}"),
                    Ln("        "),
                    Ln("        # Call API"),
                    Ln("        # response = api_function()"),
                    Ln("        "),
                    Ln("        # Assertions"),
                    Ln("        mock_get.assert_called_once()"),
                    Ln("        self.assertEqual(mock_get.return_value.status_code, 200)"),
                    Blank >>
            ELSE <<>>
        footer ==
            << Blank,
               Ln("if __name__ == '__main__':"),
               Ln("    unittest.main()") >>
    IN  body \o api \o footer

GenerateJest(cfg) ==
    LET name == cfg.test_name
        imports == << <<"const { /* imports */ } = require('", cfg.module_path, "');">> >>
        header ==
            << Ln("/**"),
               <<" * Test module for ", cfg.module_path>>,
               <<" * Test Type: ", cfg.test_type>>,
               Ln(" */"),
               Blank >>
            \o imports
            \o <<Blank>>
        fixture ==
            IF cfg.include_fixtures
            THEN << Ln("let testData;"),
                    Blank,
                    <<"beforeEach", "(() => {">>,
                    Ln("  // Setup before each test"),
                    Ln("  testData = { key: 'value' };"),
                    Ln("});"),
                    Blank,
                    <<"afterEach", "(() => {">>,
                    Ln("  // Cleanup after each test"),
                    Ln("});"),
                    Blank >>
            ELSE <<>>
        basic ==
            << <<"describe(", "'">> \o name \o <<"'", ", () => {">>,
               <<"  test(", "'", "should ">> \o name \o <<"'", ", () => {">>,
               Ln("    // Arrange"),
               Ln("    const expected = null;"),
               Ln("    "),
               Ln("    // Act"),
               Ln("    const result = null;"),
               Ln("    "),
               Ln("    // Assert"),
               Ln("    expect(result).toBe(expected);"),
               Ln("  });") >>
        parametrized ==
            IF cfg.include_parametrize
            THEN << Blank,
                    <<"  test.each(", "[">>,
                    Ln("    [1, 1],"),
                    Ln("    [2, 2],"),
                    Ln("    [3, 3],"),
                    <<"  ])(", "'", "should handle input %i and return %i", "'",
                      ", (input, expected) => {">>,
                    Ln("    // Test logic here"),
                    Ln("    expect(input).toBe(expected);"),
                    Ln("  });") >>
            ELSE <<>>
        api ==
            IF cfg.test_type = "api"
            THEN << Blank,
                    <<"  test(", "'", "should make API call", "'", ", async () => {">>,
                    Ln("    // Mock fetch"),
                    <<"    global.fetch = ", "jest.fn", "(() =>">>,
                    Ln("      Promise.resolve({"),
                    Ln("        status: 200,"),
                    Ln("        json: () => Promise.resolve({ success: true }),"),
                    Ln("      })"),
                    Ln("    );"),
                    Ln("    "),
                    Ln("    // Call API"),
                    Ln("    // const response = await apiFunction();"),
                    Ln("    "),
                    Ln("    // Assertions"),
                    Ln("    expect(fetch).toHaveBeenCalledTimes(1);"),
                    Ln("  });") >>
            ELSE <<>>
    IN  header \o fixture \o basic \o parametrized \o api \o <<Ln("});")>>

GenerateJunit(cfg) ==
    LET name == cfg.test_name
        class_name == ClassName(cfg)
        header ==
            << Ln("/**"),
               <<" * Test class for ", cfg.module_path>>,
               <<" * Test Type: ", cfg.test_type>>,
               Ln(" */"),
               Blank,
               <<"import ", cfg.module_path, ".*;">>,
               Ln("import org.junit.jupiter.api.*;"),
               Ln("import static org.junit.jupiter.api.Assertions.*;") >>
        mocks ==
            IF cfg.include_mocks
            THEN << <<"import ", "org.mockito.Mock", ";">>,
                    <<"import ", "org.mockito.MockitoAnnotations", ";">>,
                    <<"import static ", "org.mockito.Mockito.*", ";">> >>
            ELSE <<>>
        open ==
            << Blank,
               <<"public class ">> \o class_name \o <<" {">>,
               Blank >>
        fixture ==
            IF cfg.include_fixtures
            THEN << Ln("    private Object testData;"),
                    Blank,
                    Ln("    @BeforeEach"),
                    Ln("    public void setUp() {"),
                    Ln("        // Setup before each test"),
                    Ln("        testData = new Object();"),
                    Ln("    }"),
                    Blank,
                    Ln("    @AfterEach"),
                    Ln("    public void tearDown() {"),
                    Ln("        // Cleanup after each test"),
                    Ln("    }"),
                    Blank >>
            ELSE <<>>
        basic ==
            << Ln("    @Test"),
               <<"    ", "public void ", "test">> \o Title(name) \o <<"()", " {">>,
               <<"        // Test ">> \o name,
               Ln("        // Arrange"),
               Ln("        Object expected = null;"),
               Ln("        "),
               Ln("        // Act"),
               Ln("        Object result = null;"),
               Ln("        "),
               Ln("        // Assert"),
               Ln("        assertEquals(expected, result);"),
               Ln("    }") >>
        parametrized ==
            IF cfg.include_parametrize
            THEN << Blank,
                    Ln("    @ParameterizedTest"),
                    Ln("    @ValueSource(ints = {1, 2, 3})"),
                    <<"    ", "public void ", "test">> \o Title(name)
                        \o <<"Parametrized", "(int input) {">>,
                    Ln("        // Parametrized test logic"),
                    Ln("        assertTrue(input > 0);"),
                    Ln("    }") >>
            ELSE <<>>
        api ==
            IF cfg.test_type = "api"
            THEN << Blank,
                    Ln("    @Test"),
                    <<"    ", "public void ", "test">> \o Title(name) \o <<"ApiCall", "() {">>,
                    Ln("        // Mock API call"),
                    Ln("        // Setup mock response"),
                    Ln("        // Call API"),
                    Ln("        // Assertions"),
                    Ln("        // verify(mockObject).method();"),
                    Ln("    }") >>
            ELSE <<>>
    IN  header \o mocks \o open \o fixture \o basic \o parametrized \o api \o <<Ln("}")>>

-----------------------------------------------------------------------------
(* The file system, as far as os.makedirs and open(path, 'w') use it.  A   *)
(* path is the sequence of its components, relative to the working         *)
(* directory; the working directory itself is <<>> and always exists.      *)

\* The files the model may write, and a file that is read.
OutputPaths == { <<"out", "gen", "test_out.py">> }

SinkPaths == { <<"test_out.py">>, <<"out", "gen", "test_out.py">> }

SourcePath == <<"calc.py">>

SuiteNames == { "test_suite.py" }

OutputDir == <<"generated_tests">>

\* A file of the working directory whose name is that of the directory an
\* output path goes through.
BlockerPath == <<"out">>

MaxBatch == 3

\* example_save_to_files: the directory of the batch and the file of its
\* i-th entry.
BatchDir == <<"tmp_rovodev_generated_tests">>

BatchPath(i) == BatchDir \o <<"test_" \o ToString(i) \o ".py">>

FilePaths ==
    OutputPaths \cup SinkPaths \cup {SourcePath, BlockerPath}
        \cup { OutputDir \o <<n>> : n \in SuiteNames }
        \cup { BatchPath(i) : i \in 1..MaxBatch }

NoFile == [exists |-> FALSE, text |-> <<>>]

NoFiles == [p \in FilePaths |-> NoFile]

\* os.path.dirname
DirName(p) == SubSeq(p, 1, Len(p) - 1)

\* d and the directories above it, the working directory left out.
Ancestors(d) == { SubSeq(d, 1, k) : k \in 1..Len(d) }

IsFile(p, F) == p \in DOMAIN F /\ F[p].exists

\* os.makedirs(d, exist_ok=True): creates d and its missing parents; fails
\* when a component of d is an existing file.
MakeDirs(d, D, F) ==
    IF \E a \in Ancestors(d) : IsFile(a, F)
    THEN [status |-> "OSError", dirs |-> D, files |-> F]
    ELSE [status |-> "ok", dirs |-> D \cup Ancestors(d), files |-> F]

\* with open(p, 'w') as f: f.write(text).  The directory of p must exist and
\* p must not be a directory; the file is created or replaced.
WriteFile(p, text, D, F) ==
    IF (DirName(p) # <<>> /\ DirName(p) \notin D) \/ p \in D
    THEN [status |-> "OSError", dirs |-> D, files |-> F]
    ELSE [status |-> "ok", dirs |-> D,
          files |-> [F EXCEPT ![p] = [exists |-> TRUE, text |-> text]]]

-----------------------------------------------------------------------------
(* test_automation_generator.py: TestCodeGenerator.generate().             *)

MaxClock == 2

\* template_map: the renderer registered for each TestFramework member.
TemplateMap(cfg) ==
    CASE cfg.framework.value = "pytest"   -> GeneratePytest(cfg)
      [] cfg.framework.value = "unittest" -> GenerateUnittest(cfg)
      [] cfg.framework.value = "jest"     -> GenerateJest(cfg)
      [] cfg.framework.value = "junit"    -> GenerateJunit(cfg)

\* template_map.get(config.framework) finds a renderer: the key is a member
\* of the enumeration (a str with a member's text is not a key).
Registered(fw) == fw.tag = "TestFramework" /\ fw.value \in TestFramework

\* A faulty variant of Generate: the text carries the time of the call.
GenerateStamped(cfg) ==
    IF Registered(cfg.framework)
    THEN [status |-> "text",
          text |-> << <<"Generated on ", ToString(clock)>> >> \o TemplateMap(cfg),
          cfg |-> cfg]
    ELSE [status |-> "ValueError", text |-> <<>>, cfg |-> cfg]

\* A faulty variant of Generate: an unknown framework falls back to pytest.
GenerateDefaulting(cfg) ==
    IF Registered(cfg.framework)
    THEN [status |-> "text", text |-> TemplateMap(cfg), cfg |-> cfg]
    ELSE [status |-> "text", text |-> GeneratePytest(cfg), cfg |-> cfg]

\* generate(): the text, or ValueError("Unsupported framework: ...").
\* The outcome keeps the configuration the call was made with.
Generate(cfg) ==
    IF Registered(cfg.framework)
    THEN [status |-> "text", text |-> TemplateMap(cfg), cfg |-> cfg]
    ELSE [status |-> "ValueError", text |-> <<>>, cfg |-> cfg]

NoCall(cfg) == [status |-> "none", text |-> <<>>, cfg |-> cfg]

\* The values of the variables that belong to the other components.
IdleResolve == tfOut = [status |-> "none"] /\ astGen = [status |-> "none"]

IdleTa ==
    /\ ta = [test_framework |-> "pytest", generated_tests |-> <<>>]
    /\ taOut = [status |-> "none", text |-> <<>>, cases |-> 0]

\* What a persistence operation leaves behind for the caller: the operation,
\* the step it reached, how it ended, the file it was to write, the text it
\* was to write there, and whether the directory of the file existed before.
SinkOutcome(op, stage, status, path, text, D) ==
    [op |-> op, stage |-> stage, status |-> status, path |-> path, text |-> text,
     dirWasThere |-> DirName(path) = <<>> \/ DirName(path) \in D]

NoSink == SinkOutcome("none", "none", "none", <<>>, <<>>, {})

IdleSink == dirs = {} /\ files = NoFiles /\ sinkOut = NoSink

\* TestGenerator(): no template registered, no suite generated.
NoTemplates == [n \in {} |-> <<>>]

NoSuite ==
    [status |-> "none", text |-> <<>>, template_name |-> "", test_specs |-> <<>>,
     suite_name |-> <<>>, at |-> 0]

\* example_save_to_files() and generate_tests.py not run.
NoBatch == [status |-> "none", entries |-> <<>>, created |-> <<>>, failed |-> 0]

NoCli ==
    [status |-> "none", exit_code |-> 0, class_name |-> <<>>, test_cases |-> 0,
     framework |-> "", dry_run |-> FALSE, filename |-> <<>>, output_filename |-> <<>>,
     output_path |-> <<>>]

\* No call of a wrapped function in progress.
NoRetry ==
    [status |-> "idle", max_attempts |-> 0, attempt |-> 0, calls |-> 0, sleeps |-> 0,
     outcomes |-> <<>>, last_exception |-> 0, raised |-> 0, returned |-> 0]

\* No call of wait_until in progress.
NoWait ==
    [status |-> "idle", timeout |-> 0, poll_interval |-> 1, start_time |-> 0, now |-> 0,
     true_from |-> 0, polls |-> <<>>]

IdleTools ==
    /\ templates = NoTemplates
    /\ suiteOut = NoSuite
    /\ batchOut = NoBatch
    /\ cliOut = NoCli
    /\ retry = NoRetry

\* Calculator(): an empty history; the caller holds no list.
NoCalc ==
    [history |-> <<>>, made |-> <<>>,
     last |-> [op |-> "none", a |-> 0, b |-> 0, status |-> "none", value |-> ""],
     held |-> <<>>, shared |-> FALSE]

\* UITestHelper(): no driver held, none created.
NoUi ==
    [browser |-> <<"c","h","r","o","m","e">>, headless |-> FALSE, driver |-> 0, url |-> "",
     created |-> 0,
     quit |-> {}, maximized |-> {}, last |-> [op |-> "none", status |-> "none"]]

IdleWait == wait = NoWait

IdleCalc == calc = NoCalc

IdleUi == ui = NoUi

\* No generate_test() call made.
NoTest == [status |-> "none", text |-> <<>>, template_name |-> "", test_spec |-> <<>>]

IdleHelpers == IdleWait /\ IdleCalc /\ IdleUi /\ testOut = NoTest

Init ==
    /\ config \in TestConfig
    /\ result = NoCall(config)
    /\ prev = NoCall(config)
    /\ clock = 0
    /\ IdleResolve
    /\ IdleTa
    /\ IdleSink
    /\ IdleTools
    /\ IdleHelpers

\* generator.generate()
GenerateCall ==
    /\ result' = Generate(config)
    /\ prev' = result
    /\ UNCHANGED <<config, clock, tfOut, astGen, ta, taOut, dirs, files, sinkOut, toolVars, helperVars>>

\* generator.config.framework = "invalid_framework": the configuration is a
\* plain mutable dataclass, and a caller may store a str in the field.
CorruptFramework ==
    /\ \E v \in {"invalid_framework", "pytest"} :
          config' = [config EXCEPT !.framework = RawStr(v)]
    /\ config.framework.tag = "TestFramework"
    /\ UNCHANGED <<result, prev, clock, tfOut, astGen, ta, taOut, dirs, files, sinkOut, toolVars, helperVars>>

\* Time passes.
Tick ==
    /\ clock < MaxClock
    /\ clock' = clock + 1
    /\ UNCHANGED <<config, result, prev, tfOut, astGen, ta, taOut, dirs, files, sinkOut, toolVars, helperVars>>

Next ==
    \/ GenerateCall
    \/ CorruptFramework
    \/ Tick

Spec == Init /\ [][Next]_vars

-----------------------------------------------------------------------------
(* Observations on a generated text.                                       *)

\* pat occurs in line as a run of consecutive segments.
HasSeg(line, pat) ==
    \E k \in 0..(Len(line) - Len(pat)) : SubSeq(line, k + 1, k + Len(pat)) = pat

\* pat occurs in some line of text.
Contains(text, pat) == \E i \in DOMAIN text : HasSeg(text[i], pat)

StartsWith(line, pat) ==
    Len(line) >= Len(pat) /\ SubSeq(line, 1, Len(pat)) = pat

\* The lines of text that open a test block in the syntax of framework fw.
TestBlockLines(fw, text) ==
    { i \in DOMAIN text :
        CASE fw = "pytest"   -> StartsWith(text[i], <<"def ", "test_">>)
          [] fw = "unittest" -> StartsWith(text[i], <<"    ", "def ", "test_">>)
          [] fw = "jest"     -> \/ StartsWith(text[i], <<"  test(">>)
                                \/ StartsWith(text[i], <<"  test.each(">>)
          [] fw = "junit"    -> \/ text[i] = <<"    @Test">>
                                \/ text[i] = <<"    @ParameterizedTest">> }

\* The lines of text that declare a class.
ClassLines(text) ==
    { i \in DOMAIN text :
        text[i] # <<>> /\ text[i][1] \in {"class ", "public class "} }

\* Title case as the tests of the generator expect it: a letter is upper-cased
\* when it starts a run of letters and lower-cased otherwise; every other
\* character (an underscore, a digit) is kept.
ExpectedTitle(s) ==
    [i \in DOMAIN s |->
        IF ~(IsLower(s[i]) \/ IsUpper(s[i])) THEN s[i]
        ELSE IF i = 1 \/ ~(IsLower(s[i - 1]) \/ IsUpper(s[i - 1]))
             THEN ToUpper(s[i])
             ELSE ToLower(s[i])]

\* PascalCase as the specification uses it: the underscores are dropped and
\* the first letter of every word is upper-cased ("user_service" gives
\* "UserService").
PascalCase(s) ==
    LET keep == { i \in DOMAIN s : s[i] # "_" }
        Up(i) == IF i = 1 \/ s[i - 1] = "_" THEN ToUpper(s[i]) ELSE s[i]
        RECURSIVE From(_)
        From(i) == IF i > Len(s) THEN <<>>
                   ELSE (IF i \in keep THEN <<Up(i)>> ELSE <<>>) \o From(i + 1)
    IN  From(1)

UserService == <<"u","s","e","r","_","s","e","r","v","i","c","e">>

SampleTest == <<"s","a","m","p","l","e","_","t","e","s","t">>

\* The fixture / setup-teardown scaffold of framework fw.
HasFixtureScaffold(fw, text) ==
    CASE fw = "pytest"   -> Contains(text, <<"@pytest.fixture">>)
      [] fw = "unittest" -> Contains(text, <<"setUp">>) \/ Contains(text, <<"tearDown">>)
      [] fw = "jest"     -> Contains(text, <<"beforeEach">>) \/ Contains(text, <<"afterEach">>)
      [] fw = "junit"    -> Contains(text, <<"    @BeforeEach">>)
                            \/ Contains(text, <<"    @AfterEach">>)

\* The import of the mocking library of framework fw.
HasMockImport(fw, text) ==
    CASE fw \in {"pytest", "unittest"} -> Contains(text, <<"from unittest.mock import ">>)
      [] fw = "junit" -> \E i \in DOMAIN text :
                            /\ Len(text[i]) >= 2
                            /\ text[i][1] \in {"import ", "import static "}
                            /\ text[i][2] \in {"org.mockito.Mock",
                                               "org.mockito.MockitoAnnotations",
                                               "org.mockito.Mockito.*"}
      [] fw = "jest" -> \E i \in DOMAIN text :
                            /\ text[i] # <<>>
                            /\ text[i][1] \in {"import ", "jest.mock("}

\* The three-row sample table of the parametrized block.
HasSampleTable(fw, text) ==
    CASE fw \in {"pytest", "unittest"} ->
            /\ Contains(text, <<"    (1, 1),">>)
            /\ Contains(text, <<"    (2, 2),">>)
            /\ Contains(text, <<"    (3, 3),">>)
      [] fw = "jest" ->
            /\ Contains(text, <<"    [1, 1],">>)
            /\ Contains(text, <<"    [2, 2],">>)
            /\ Contains(text, <<"    [3, 3],">>)
      [] fw = "junit" -> Contains(text, <<"    @ValueSource(ints = {1, 2, 3})">>)

\* The test blocks of text that are parametrized, in any framework's syntax.
ParametrizedLines(text) ==
    { i \in DOMAIN text :
        \/ HasSeg(text[i], <<"_parametrized">>)
        \/ HasSeg(text[i], <<"Parametrized">>)
        \/ HasSeg(text[i], <<"  test.each(">>) }

-----------------------------------------------------------------------------
(* Claims about TestCodeGenerator.generate().                              *)

C4_BlockCount ==
    (result.status # "none" /\ Registered(result.cfg.framework)) =>
        /\ result.status = "text"
        /\ Len(result.text) > 0
        /\ Cardinality(TestBlockLines(result.cfg.framework.value, result.text))
              = 1 + (IF result.cfg.include_parametrize THEN 1 ELSE 0)

C6_NamesAsTested ==
    result.status = "text" =>
        LET n == result.cfg.test_name
            fw == result.cfg.framework.value
            t == result.text
        IN  /\ fw = "unittest" =>
                  /\ Contains(t, <<"class ", "Test">> \o ExpectedTitle(n)
                                     \o <<"(unittest.TestCase)">>)
                  /\ Contains(t, <<"def ", "test_">> \o n \o <<"(self)">>)
            /\ fw = "junit" =>
                  /\ Contains(t, <<"public class ", "Test">> \o ExpectedTitle(n))
                  /\ Contains(t, <<"public void ", "test">> \o ExpectedTitle(n) \o <<"()">>)
            /\ (n = SampleTest /\ fw = "junit") =>
                  Contains(t, <<"public void ", "test",
                                "S","a","m","p","l","e","_","T","e","s","t", "()">>)

\* The JUnit renderer has rendered the test name "sample_test".
C6_Witness ==
    /\ result.status = "text"
    /\ result.cfg.framework.value = "junit"
    /\ result.cfg.test_name = SampleTest

\* C7 (as claimed): in every framework the text holds the fixture scaffold
\* if and only if include_fixtures is set.
C7_FixturesToggle ==
    result.status = "text" =>
        (HasFixtureScaffold(result.cfg.framework.value, result.text)
            <=> result.cfg.include_fixtures)

\* C8 (as claimed): in every framework the text holds the import of the
\* mocking library if and only if include_mocks is set.
C8_MocksToggle ==
    result.status = "text" =>
        (HasMockImport(result.cfg.framework.value, result.text)
            <=> result.cfg.include_mocks)

\* C9 (as claimed): with include_parametrize every renderer emits exactly one
\* parametrized test block, named by the suffix "_parametrized" after the
\* test name and holding the three-row sample table; without the flag no
\* parametrized block is emitted.
C9_ParametrizedBlock ==
    result.status = "text" =>
        LET n == result.cfg.test_name
            fw == result.cfg.framework.value
            t == result.text
            named == { i \in TestBlockLines(fw, t) \cup {j + 1 : j \in TestBlockLines(fw, t)} :
                          i \in DOMAIN t /\ HasSeg(t[i], n \o <<"_parametrized">>) }
        IN  IF result.cfg.include_parametrize
            THEN Cardinality(named) = 1 /\ HasSampleTable(fw, t)
            ELSE ParametrizedLines(t) = {}

-----------------------------------------------------------------------------
(* Resolution of a framework name: generate(), generate_test_file() of     *)
(* test_automation_generator.py and the constructor of the AST-based       *)
(* TestCodeGenerator of test_generator.py.                                 *)

\* TestCodeGenerator.save_to_file(output_path) on a generator holding cfg,
\* in the file system (D, F).
\* A faulty variant of SaveToFile: a failure of makedirs or of the write is
\* swallowed and the call returns normally.
SaveToFileSwallowing(cfg, output_path, D, F) ==
    LET code == Generate(cfg)
        made == MakeDirs(DirName(output_path), D, F)
        written == WriteFile(output_path, code.text, made.dirs, made.files)
    IN  IF code.status # "text"
        THEN [status |-> code.status, dirs |-> D, files |-> F]
        ELSE IF made.status = "ok" /\ written.status = "ok"
        THEN written
        ELSE [status |-> "ok", dirs |-> D, files |-> F]

SaveToFile(cfg, output_path, D, F) ==
    LET code == Generate(cfg)
    IN  IF code.status # "text"
        THEN [status |-> code.status, dirs |-> D, files |-> F]
        ELSE LET made == MakeDirs(DirName(output_path), D, F)
             IN  IF made.status # "ok"
                 THEN made
                 ELSE WriteFile(output_path, code.text, made.dirs, made.files)

\* The framework and test type names generate_test_file() is called with.
FrameworkArgs == TestFramework \cup {"cobol-unit", "PYTEST"}

TestTypeArgs == TestType \cup {"smoke"}

\* generate_test_file(framework, test_type, ..., output_path, ...): the
\* enumeration lookups TestFramework(framework) and TestType(test_type) raise
\* ValueError for a value that is no member's; then the file is saved and the
\* text generated once more for the caller.
GenerateTestFileOutcome(framework, test_type, base, output_path, D, F) ==
    LET cfg == [base EXCEPT !.framework = Member(framework), !.test_type = test_type]
        saved == SaveToFile(cfg, output_path, D, F)
        failed == [status |-> "ValueError", text |-> <<>>, dirs |-> D, files |-> F]
    IN  IF framework \notin TestFramework \/ test_type \notin TestType
        THEN failed
        ELSE IF saved.status # "ok"
        THEN [status |-> saved.status, text |-> <<>>,
              dirs |-> saved.dirs, files |-> saved.files]
        ELSE [status |-> Generate(cfg).status, text |-> Generate(cfg).text,
              dirs |-> saved.dirs, files |-> saved.files]

GenerateTestFile ==
    \E framework \in FrameworkArgs, test_type \in {config.test_type, "smoke"},
       output_path \in OutputPaths :
        \E out \in {GenerateTestFileOutcome(framework, test_type, config,
                                            output_path, dirs, files)} :
            /\ tfOut' = [status |-> out.status, text |-> out.text,
                         framework |-> framework, test_type |-> test_type,
                         path |-> output_path]
            /\ dirs' = out.dirs
            /\ files' = out.files
            /\ UNCHANGED <<config, result, prev, clock, astGen, ta, taOut, sinkOut, toolVars, helperVars>>

\* The framework names the AST-based generator is constructed with.
AstFrameworkArgs ==
    { <<"p","y","t","e","s","t">>,
      <<"u","n","i","t","t","e","s","t">>,
      <<"P","y","T","e","s","t">>,
      <<"c","o","b","o","l","-","u","n","i","t">> }

AstFrameworks == { <<"p","y","t","e","s","t">>, <<"u","n","i","t","t","e","s","t">> }

\* test_generator.TestCodeGenerator(framework): the name is lower-cased and
\* then checked.
AstConstruct(framework) ==
    IF StrLower(framework) \in AstFrameworks
    THEN [status |-> "ok", framework |-> StrLower(framework), arg |-> framework]
    ELSE [status |-> "ValueError", framework |-> <<>>, arg |-> framework]

AstInit ==
    /\ \E framework \in AstFrameworkArgs : astGen' = AstConstruct(framework)
    /\ UNCHANGED <<config, result, prev, clock, tfOut, ta, taOut, dirs, files, sinkOut, toolVars, helperVars>>

\* The configurations with the flags at the defaults of the dataclass.
DefaultConfigs ==
    { c \in TestConfig :
        /\ c.include_fixtures
        /\ c.include_mocks
        /\ ~c.include_parametrize
        /\ c.test_name = <<"s","a","m","p","l","e","_","t","e","s","t">>
        /\ c.test_type \in {"unit", "api"} }

InitResolve ==
    /\ config \in DefaultConfigs
    /\ result = NoCall(config)
    /\ prev = NoCall(config)
    /\ clock = 0
    /\ IdleResolve
    /\ IdleTa
    /\ IdleSink
    /\ IdleTools
    /\ IdleHelpers

NextResolve ==
    \/ GenerateCall
    \/ CorruptFramework
    \/ GenerateTestFile
    \/ AstInit

SpecResolve == InitResolve /\ [][NextResolve]_vars

-----------------------------------------------------------------------------
(* Claims about the resolution of a framework name.                        *)

\* The frameworks whose characteristic line a text holds.
RenderedFor(text) ==
    { fw \in TestFramework :
        CASE fw = "pytest"   -> Contains(text, <<"import pytest">>)
          [] fw = "unittest" -> Contains(text, <<"import unittest">>)
          [] fw = "jest"     -> Contains(text, <<"describe(">>)
          [] fw = "junit"    -> Contains(text, <<"import org.junit.jupiter.api.*;">>) }

\* generate() with a framework that is no member of the enumeration raises
\* ValueError and returns no text; a text it returns is that of the
\* framework of the configuration.
GenerateRejectsUnknown ==
    /\ (result.status # "none" /\ ~Registered(result.cfg.framework)) =>
            (result.status = "ValueError" /\ result.text = <<>>)
    /\ result.status = "text" =>
            /\ Registered(result.cfg.framework)
            /\ RenderedFor(result.text) = {result.cfg.framework.value}

\* generate_test_file() with a framework name outside the four raises
\* ValueError; a text it returns, and the file it wrote, are those of the
\* framework asked for.
TestFileRejectsUnknown ==
    tfOut.status # "none" =>
        /\ tfOut.framework \notin TestFramework =>
                (tfOut.status = "ValueError" /\ tfOut.text = <<>>)
        /\ tfOut.status = "text" =>
                /\ tfOut.framework \in TestFramework
                /\ RenderedFor(tfOut.text) = {tfOut.framework}
                /\ files[tfOut.path] = [exists |-> TRUE, text |-> tfOut.text]

\* C2 (as claimed): an unknown framework is rejected by generate(), by
\* generate_test_file() before any file or directory is created or written,
\* and by the constructor of the AST-based generator for every name other
\* than "pytest" and "unittest".
C2_UnknownRejected ==
    /\ [](/\ GenerateRejectsUnknown
          /\ TestFileRejectsUnknown
          /\ astGen.status # "none" =>
                (astGen.status = "ok" <=> astGen.arg \in AstFrameworks))
    /\ [][(files' # files \/ dirs' # dirs) => tfOut'.framework \in TestFramework]_vars

\* C2 (amended): as claimed, but the constructor of the AST-based generator
\* compares the name after lower-casing it: it raises ValueError exactly for
\* the names that are neither "pytest" nor "unittest" in any letter case, and
\* keeps the lower-cased name otherwise.
C2_UnknownRejectedModuloCase ==
    /\ [](/\ GenerateRejectsUnknown
          /\ TestFileRejectsUnknown
          /\ astGen.status # "none" =>
                /\ astGen.status = "ok" <=>
                      [i \in DOMAIN astGen.arg |-> ToLower(astGen.arg[i])] \in AstFrameworks
                /\ astGen.status = "ok" =>
                      /\ astGen.framework \in AstFrameworks
                      /\ Len(astGen.framework) = Len(astGen.arg)
                /\ astGen.status # "ok" => astGen.status = "ValueError")
    /\ [][(files' # files \/ dirs' # dirs) => tfOut'.framework \in TestFramework]_vars

\* An unknown framework has been refused by all three entry points.
C2_Witness ==
    /\ result.status = "ValueError"
    /\ tfOut.status = "ValueError"
    /\ tfOut.framework = "cobol-unit"
    /\ astGen.status = "ValueError"
    /\ astGen.arg = <<"c","o","b","o","l","-","u","n","i","t">>

-----------------------------------------------------------------------------
(* test_automation.py: the function / class / API test generator.  Its     *)
(* texts are built from pieces that end in "\n", so a text is the sequence *)
(* of its newline-terminated lines and the empty text is <<>>.             *)

\* Python values that appear in test cases, and repr() of them.
IntV(n) == [t |-> "int", i |-> n, s |-> ""]

StrV(x) == [t |-> "str", i |-> 0, s |-> x]

NoneV == [t |-> "none", i |-> 0, s |-> ""]

Repr(v) ==
    CASE v.t = "int"  -> <<ToString(v.i)>>
      [] v.t = "str"  -> <<"'", v.s, "'">>
      [] v.t = "none" -> <<"None">>

\* sep.join(parts), each part a run of segments.
RECURSIVE Join(_, _)
Join(parts, sep) ==
    IF parts = <<>> THEN <<>>
    ELSE IF Len(parts) = 1 THEN parts[1]
    ELSE parts[1] \o <<sep>> \o Join(Tail(parts), sep)

\* ', '.join(f"{k}={repr(v)}" for k, v in d.items())
KwArgs(items) ==
    Join([i \in DOMAIN items |-> <<items[i].k, "=">> \o Repr(items[i].v)], ", ")

\* repr() of a dict with str keys.
ReprDict(items) ==
    <<"{">>
    \o Join([i \in DOMAIN items |-> Repr(StrV(items[i].k)) \o <<": ">> \o Repr(items[i].v)],
            ", ")
    \o <<"}">>

\* The 'inputs' of a test case: a dict of keyword arguments, or another value.
DictInputs(items) == [dict |-> TRUE, items |-> items, v |-> NoneV]

PlainInputs(v) == [dict |-> FALSE, items |-> <<>>, v |-> v]

\* test_automation.TestCodeGenerator(test_framework): any name is accepted.
TaConstruct(test_framework) ==
    [test_framework |-> test_framework, generated_tests |-> <<>>]

\* The text generate_function_test(func, test_cases) builds.
FunctionTestText(fw, func, test_cases) ==
    LET func_name == func.name
        Params(tc) == IF tc.inputs.dict THEN KwArgs(tc.inputs.items)
                      ELSE Repr(tc.inputs.v)
        PytestCase(idx) ==
            << <<"def ", "test_">> \o func_name \o <<"_", ToString(idx), "():">>,
               <<"    result = ">> \o func_name \o <<"(">> \o Params(test_cases[idx]) \o <<")">>,
               <<"    assert result == ">> \o Repr(test_cases[idx].expected),
               Blank >>
        UnittestCase(idx) ==
            << <<"    ", "def ", "test_">> \o func_name \o <<"_", ToString(idx), "(self):">>,
               <<"        result = ">> \o func_name \o <<"(">> \o Params(test_cases[idx]) \o <<")">>,
               <<"        self.assertEqual(result, ">> \o Repr(test_cases[idx].expected) \o <<")">>,
               Blank >>
        RECURSIVE Cases(_, _)
        Cases(Case(_), idx) ==
            IF idx > Len(test_cases) THEN <<>> ELSE Case(idx) \o Cases(Case, idx + 1)
    IN  CASE fw = "pytest" ->
                << Ln("import pytest"),
                   <<"from ", func.module, " import ">> \o func_name,
                   Blank >>
                \o Cases(PytestCase, 1)
          [] fw = "unittest" ->
                << Ln("import unittest"),
                   <<"from ", func.module, " import ">> \o func_name,
                   Blank,
                   <<"class ", "Test">> \o Title(func_name) \o <<"(unittest.TestCase)", ":">>,
                   Blank >>
                \o Cases(UnittestCase, 1)
          [] OTHER -> <<>>

\* The text generate_class_test(cls, method_tests) builds; method_tests is the
\* dict in insertion order, a sequence of [method_name, test_cases].
ClassTestText(fw, cls, method_tests) ==
    LET class_name == cls.name
        Obj(tc, indent) ==
            IF tc.init_params # <<>>
            THEN <<indent, "obj = ", class_name, "(">> \o KwArgs(tc.init_params) \o <<")">>
            ELSE <<indent, "obj = ", class_name, "()">>
        Truthy(v) == ~(v.t = "none" \/ (v.t = "int" /\ v.i = 0) \/ (v.t = "str" /\ v.s = ""))
        Params(tc) == IF tc.inputs.dict THEN KwArgs(tc.inputs.items)
                      ELSE IF Truthy(tc.inputs.v) THEN Repr(tc.inputs.v) ELSE <<>>
        PytestCase(m, idx) ==
            LET tc == method_tests[m].test_cases[idx]
                method_name == method_tests[m].method_name
            IN  << <<"def ", "test_", class_name, "_", method_name, "_", ToString(idx), "():">>,
                   Obj(tc, "    "),
                   <<"    result = obj.", method_name, "(">> \o Params(tc) \o <<")">>,
                   <<"    assert result == ">> \o Repr(tc.expected),
                   Blank >>
        UnittestCase(m, idx) ==
            LET tc == method_tests[m].test_cases[idx]
                method_name == method_tests[m].method_name
            IN  << <<"    ", "def ", "test_", method_name, "_", ToString(idx), "(self):">>,
                   Obj(tc, "        "),
                   <<"        result = obj.", method_name, "(">> \o Params(tc) \o <<")">>,
                   <<"        self.assertEqual(result, ">> \o Repr(tc.expected) \o <<")">>,
                   Blank >>
        RECURSIVE Cases(_, _, _)
        Cases(Case(_, _), m, idx) ==
            IF m > Len(method_tests) THEN <<>>
            ELSE IF idx > Len(method_tests[m].test_cases) THEN Cases(Case, m + 1, 1)
            ELSE Case(m, idx) \o Cases(Case, m, idx + 1)
    IN  CASE fw = "pytest" ->
                << Ln("import pytest"),
                   <<"from ", cls.module, " import ", class_name>>,
                   Blank >>
                \o Cases(PytestCase, 1, 1)
          [] fw = "unittest" ->
                << Ln("import unittest"),
                   <<"from ", cls.module, " import ", class_name>>,
                   Blank,
                   <<"class ", "Test", class_name, "(unittest.TestCase)", ":">>,
                   Blank >>
                \o Cases(UnittestCase, 1, 1)
          [] OTHER -> <<>>

\* re.sub(r'[^a-zA-Z0-9_]', '_', endpoint)
SafeEndpoint(endpoint) ==
    [i \in DOMAIN endpoint |->
        IF \/ IsLower(endpoint[i])
           \/ IsUpper(endpoint[i])
           \/ endpoint[i] \in {"0","1","2","3","4","5","6","7","8","9","_"}
        THEN endpoint[i]
        ELSE "_"]

\* str.upper()
StrUpper(s) == [i \in DOMAIN s |-> ToUpper(s[i])]

\* The text generate_api_test(endpoint, method, test_cases) builds: only the
\* pytest branch exists.
ApiTestText(fw, endpoint, method, test_cases) ==
    LET safe_endpoint == SafeEndpoint(endpoint)
        Case(idx) ==
            LET tc == test_cases[idx]
                request_params ==
                    (IF tc.headers # <<>> THEN << <<"headers=headers">> >> ELSE <<>>)
                    \o (IF tc.data # <<>>
                        THEN IF StrUpper(method) \in { <<"P","O","S","T">>, <<"P","U","T">>,
                                                       <<"P","A","T","C","H">> }
                             THEN << <<"json=data">> >>
                             ELSE << <<"params=data">> >>
                        ELSE <<>>)
            IN  << <<"def ", "test_", "api_">> \o StrLower(method) \o <<"_">> \o safe_endpoint
                        \o <<"_", ToString(idx), "():">>,
                   <<"    url = '">> \o endpoint \o <<"'">> >>
                \o (IF tc.headers # <<>>
                    THEN << <<"    headers = ">> \o ReprDict(tc.headers) >> ELSE <<>>)
                \o (IF tc.data # <<>>
                    THEN << <<"    data = ">> \o ReprDict(tc.data) >> ELSE <<>>)
                \o << <<"    response = requests.">> \o StrLower(method) \o <<"(url, ">>
                          \o Join(request_params, ", ") \o <<")">>,
                      <<"    assert response.status_code == ", ToString(tc.expected_status)>> >>
                \o (IF tc.expected_response # <<>>
                    THEN << <<"    assert response.json() == ">>
                                \o ReprDict(tc.expected_response) >>
                    ELSE <<>>)
                \o <<Blank>>
        RECURSIVE Cases(_)
        Cases(idx) == IF idx > Len(test_cases) THEN <<>> ELSE Case(idx) \o Cases(idx + 1)
    IN  IF fw = "pytest"
        THEN << Ln("import pytest"), Ln("import requests"), Blank >> \o Cases(1)
        ELSE <<>>

-----------------------------------------------------------------------------
(* test_automation.py: the operations of TestCodeGenerator.                *)

MaxGenerated == 2

TaFrameworkArgs == {"pytest", "unittest", "cobol-unit"}

\* The function, class and endpoint the model generates tests for.
AddNumbers ==
    [name |-> <<"a","d","d","_","n","u","m","b","e","r","s">>, module |-> "mymodule"]

FunctionCaseLists ==
    { <<>>,
      << [inputs |-> DictInputs(<< [k |-> "a", v |-> IntV(1)], [k |-> "b", v |-> IntV(2)] >>),
          expected |-> IntV(3)],
         [inputs |-> PlainInputs(IntV(5)), expected |-> NoneV] >> }

CalculatorClass == [name |-> "Calculator", module |-> "example_calculator"]

MethodTests ==
    { << [method_name |-> "add",
          test_cases |->
            << [init_params |-> <<>>,
                inputs |-> DictInputs(<< [k |-> "a", v |-> IntV(2)],
                                         [k |-> "b", v |-> IntV(3)] >>),
                expected |-> IntV(5)] >>] >> }

UsersEndpoint == <<"/","a","p","i","/","u","s","e","r","s">>

ApiCaseLists ==
    { << [headers |-> << [k |-> "Content-Type", v |-> StrV("application/json")] >>,
          data |-> << [k |-> "name", v |-> StrV("John")] >>,
          expected_status |-> 201,
          expected_response |-> << [k |-> "id", v |-> IntV(1)] >>] >> }

\* A faulty variant of Emit: the list keeps the latest text only.
EmitReplacing(generated, cases) ==
    /\ Len(ta.generated_tests) < MaxGenerated
    /\ ta' = [ta EXCEPT !.generated_tests = <<generated>>]
    /\ taOut' = [status |-> "returned", text |-> generated, cases |-> cases]
    /\ UNCHANGED <<config, result, prev, clock, tfOut, astGen, dirs, files, sinkOut, toolVars, helperVars>>

\* generated = ''.join(test_code); self.generated_tests.append(generated);
\* return generated; cases is the number of test cases the call was given.
Emit(generated, cases) ==
    /\ Len(ta.generated_tests) < MaxGenerated
    /\ ta' = [ta EXCEPT !.generated_tests = Append(@, generated)]
    /\ taOut' = [status |-> "returned", text |-> generated, cases |-> cases]
    /\ UNCHANGED <<config, result, prev, clock, tfOut, astGen, dirs, files, sinkOut, toolVars, helperVars>>

GenerateFunctionTest ==
    \E test_cases \in FunctionCaseLists :
        Emit(FunctionTestText(ta.test_framework, AddNumbers, test_cases), Len(test_cases))

\* The number of test cases of a method_tests dict.
RECURSIVE CaseCount(_)
CaseCount(method_tests) ==
    IF method_tests = <<>> THEN 0
    ELSE Len(method_tests[1].test_cases) + CaseCount(Tail(method_tests))

GenerateClassTest ==
    \E method_tests \in MethodTests :
        Emit(ClassTestText(ta.test_framework, CalculatorClass, method_tests),
             CaseCount(method_tests))

GenerateApiTest ==
    \E test_cases \in ApiCaseLists :
        Emit(ApiTestText(ta.test_framework, UsersEndpoint, <<"P","O","S","T">>, test_cases),
             Len(test_cases))

\* What save_tests writes: every text followed by "\n".
RECURSIVE SavedTests(_)
SavedTests(tests) ==
    IF tests = <<>> THEN <<>> ELSE tests[1] \o <<Blank>> \o SavedTests(Tail(tests))

\* save_tests(filepath): open(filepath, 'w'), with no directory created.
SaveTests ==
    \E filepath \in SinkPaths :
        \E out \in {WriteFile(filepath, SavedTests(ta.generated_tests), dirs, files)} :
            /\ sinkOut' = SinkOutcome("save_tests", "write", out.status, filepath,
                                       SavedTests(ta.generated_tests), dirs)
            /\ dirs' = out.dirs
            /\ files' = out.files
            /\ UNCHANGED <<config, result, prev, clock, tfOut, astGen, ta, taOut, toolVars, helperVars>>

ClearTests ==
    /\ ta' = [ta EXCEPT !.generated_tests = <<>>]
    /\ UNCHANGED <<config, result, prev, clock, tfOut, astGen, taOut, dirs, files, sinkOut, toolVars, helperVars>>

InitTa ==
    /\ config \in {c \in DefaultConfigs : c.framework.value = "pytest" /\ c.test_type = "unit"}
    /\ result = NoCall(config)
    /\ prev = NoCall(config)
    /\ clock = 0
    /\ IdleResolve
    /\ ta \in { TaConstruct(f) : f \in TaFrameworkArgs }
    /\ taOut = [status |-> "none", text |-> <<>>, cases |-> 0]
    /\ IdleSink
    /\ IdleTools
    /\ IdleHelpers

NextTa ==
    \/ GenerateFunctionTest
    \/ GenerateClassTest
    \/ GenerateApiTest
    \/ SaveTests
    \/ ClearTests

SpecTa == InitTa /\ [][NextTa]_vars

\* C3 (as claimed): a generator built with an unsupported framework name
\* never returns a text from generate_function_test / generate_class_test /
\* generate_api_test and never appends to generated_tests.
C3_UnknownFrameworkFails ==
    ta.test_framework \notin {"pytest", "unittest"} =>
        (taOut.status # "returned" /\ ta.generated_tests = <<>>)

-----------------------------------------------------------------------------
(* test_generator.py: tests generated from source code.                    *)
(* A source text is a sequence of lines of tokens; ast.parse is modelled   *)
(* on definitions at module level and one level below it.                  *)

Chars_add == <<"a","d","d">>

Chars_helper == <<"_","h","e","l","p","e","r">>

Chars_Calculator == <<"C","a","l","c","u","l","a","t","o","r">>

Chars_multiply == <<"m","u","l","t","i","p","l","y">>

Chars_log == <<"_","l","o","g">>

Chars_count == <<"c","o","u","n","t">>

Chars_self == <<"s","e","l","f">>

DefHeader(indent, name, args) ==
    indent \o <<"def ">> \o name \o <<"(">> \o Join(args, ", ") \o <<")", ":">>

CalcSource ==
    << DefHeader(<<>>, Chars_add, << <<"a">>, <<"b">> >>),
       <<"    ", "return a + b">>,
       DefHeader(<<>>, Chars_helper, << <<"x">> >>),
       <<"    ", "return x">>,
       <<"class ">> \o Chars_Calculator \o <<":">>,
       DefHeader(<<"    ">>, Chars_multiply, << Chars_self, Chars_count, <<"b">> >>),
       <<"    ", "    ", "return count * b">>,
       DefHeader(<<"    ">>, Chars_log, << Chars_self >>),
       <<"    ", "    ", "pass">> >>

\* A definition whose parameter list is never closed.
BrokenSource == << <<"def ">> \o Chars_add \o <<"(">>, <<"    ", "pass">> >>

SourceTexts == {CalcSource, BrokenSource}

Depth(line) == IF line # <<>> /\ line[1] = "    " THEN 1 ELSE 0

Stmt(line) == IF Depth(line) = 1 THEN Tail(line) ELSE line

IsDef(line) == Stmt(line) # <<>> /\ Stmt(line)[1] = "def "

IsClass(line) == Stmt(line) # <<>> /\ Stmt(line)[1] = "class "

\* Nested deeper than one level: part of a body, not walked here.
IsBody(line) == Depth(line) = 1 /\ Depth(Tail(line)) = 1

RECURSIVE IndexOf(_, _, _)
IndexOf(line, tok, i) ==
    IF i > Len(line) THEN 0
    ELSE IF line[i] = tok THEN i
    ELSE IndexOf(line, tok, i + 1)

WellFormed(line) ==
    LET st == Stmt(line)
    IN  IF IsBody(line) THEN TRUE
        ELSE IF IsDef(line)
        THEN /\ IndexOf(st, "(", 1) > 2
             /\ Len(st) >= 2
             /\ st[Len(st) - 1] = ")"
             /\ st[Len(st)] = ":"
        ELSE IF IsClass(line) THEN Len(st) > 2 /\ st[Len(st)] = ":"
        ELSE TRUE

SyntaxOk(source) == \A i \in DOMAIN source : WellFormed(source[i])

NodeName(line) ==
    LET st == Stmt(line)
    IN  IF IsDef(line) THEN SubSeq(st, 2, IndexOf(st, "(", 1) - 1)
        ELSE SubSeq(st, 2, Len(st) - 1)

RECURSIVE SplitOn(_, _, _)
\* the pieces of toks between occurrences of sep; acc is the piece in progress
SplitOn(toks, sep, acc) ==
    IF toks = <<>> THEN <<acc>>
    ELSE IF toks[1] = sep THEN <<acc>> \o SplitOn(Tail(toks), sep, <<>>)
    ELSE SplitOn(Tail(toks), sep, Append(acc, toks[1]))

\* [arg.arg for arg in node.args.args if arg.arg != 'self']
NodeArgs(line) ==
    LET st == Stmt(line)
        inner == SubSeq(st, IndexOf(st, "(", 1) + 1, Len(st) - 2)
        all == IF inner = <<>> THEN <<>> ELSE SplitOn(inner, ", ", <<>>)
    IN  SelectSeq(all, LAMBDA a : a # Chars_self)

ExtractFunctionInfo(line) == [name |-> NodeName(line), args |-> NodeArgs(line)]

IsPrivate(name) == name # <<>> /\ name[1] = "_"

RECURSIVE DefsAt(_, _, _)
\* the public function definitions of the given depth, in source order
DefsAt(source, depth, i) ==
    IF i > Len(source) THEN <<>>
    ELSE IF /\ ~IsBody(source[i])
            /\ Depth(source[i]) = depth
            /\ IsDef(source[i])
            /\ ~IsPrivate(NodeName(source[i]))
    THEN <<ExtractFunctionInfo(source[i])>> \o DefsAt(source, depth, i + 1)
    ELSE DefsAt(source, depth, i + 1)

\* ast.walk visits breadth-first: the definitions at module level, then the
\* definitions one level below, every FunctionDef among them collected.
WalkFunctions(source) == DefsAt(source, 0, 1) \o DefsAt(source, 1, 1)

RECURSIVE Methods(_, _)
\* the public methods in the body that starts at line i
Methods(source, i) ==
    IF i > Len(source) \/ Depth(source[i]) = 0 THEN <<>>
    ELSE IF ~IsBody(source[i]) /\ IsDef(source[i]) /\ ~IsPrivate(NodeName(source[i]))
    THEN <<ExtractFunctionInfo(source[i])>> \o Methods(source, i + 1)
    ELSE Methods(source, i + 1)

ExtractClassInfo(source, i) ==
    [name |-> NodeName(source[i]), methods |-> Methods(source, i + 1)]

RECURSIVE WalkClasses(_, _)
WalkClasses(source, i) ==
    IF i > Len(source) THEN <<>>
    ELSE IF Depth(source[i]) = 0 /\ IsClass(source[i])
    THEN <<ExtractClassInfo(source, i)>> \o WalkClasses(source, i + 1)
    ELSE WalkClasses(source, i + 1)

\* str.capitalize(): the first character upper-cased, the rest lower-cased.
Capitalize(s) ==
    [i \in DOMAIN s |-> IF i = 1 THEN ToUpper(s[i]) ELSE ToLower(s[i])]

\* pat in s, for strings of characters
HasWord(s, pat) ==
    \E i \in 1..(Len(s) - Len(pat) + 1) : SubSeq(s, i, i + Len(pat) - 1) = pat

NumberWords ==
    { <<"c","o","u","n","t">>, <<"n","u","m">>, <<"s","i","z","e">>, <<"i","n","d","e","x">> }

TextWords ==
    { <<"n","a","m","e">>, <<"t","e","x","t">>, <<"s","t","r">>, <<"m","s","g">> }

ListWords ==
    { <<"l","i","s","t">>, <<"i","t","e","m","s">>, <<"a","r","r","a","y">> }

DictWords ==
    { <<"d","i","c","t">>, <<"m","a","p">>, <<"c","o","n","f","i","g">> }

FlagWords ==
    { <<"f","l","a","g">>, <<"i","s","_">>, <<"h","a","s","_">>,
      <<"e","n","a","b","l","e","d">> }

\* One assignment of _generate_sample_params, the type guessed from the name.
SampleAssignment(param) ==
    LET any(words) == \E w \in words : HasWord(StrLower(param), w)
    IN  IF any(NumberWords) THEN param \o <<" = 1">>
        ELSE IF any(TextWords) THEN param \o <<" = \"test\"">>
        ELSE IF any(ListWords) THEN param \o <<" = []">>
        ELSE IF any(DictWords) THEN param \o <<" = {}">>
        ELSE IF any(FlagWords) THEN param \o <<" = True">>
        ELSE param \o <<" = None  # TODO: Set appropriate value">>

\* "    " * indent_level
Indent(indent_level) == [i \in 1..indent_level |-> "    "]

\* The lines "<lead>{param_setup}" expands to, param_setup being the
\* assignments joined by a newline and the indent of indent_level.
GenerateSampleParams(params, lead, indent_level) ==
    IF params = <<>>
    THEN << lead \o <<"# No parameters required">> >>
    ELSE [k \in DOMAIN params |->
            (IF k = 1 THEN lead ELSE Indent(indent_level)) \o SampleAssignment(params[k])]

Doc(lead, before, name, after) ==
    lead \o <<"\"\"\"", before>> \o name \o <<after, "\"\"\"">>

CallArgs(args) == <<"(">> \o Join(args, ", ") \o <<")">>

GeneratePytestFunction(func_name, params) ==
    << Blank,
       <<"def ", "test_">> \o func_name \o <<"_basic", "():">>,
       Doc(Indent(1), "Test basic functionality of ", func_name, "."),
       Indent(1) \o <<"# Arrange">> >>
    \o GenerateSampleParams(params, Indent(1), 1)
    \o << Indent(1),
          Indent(1) \o <<"# Act">>,
          Indent(1) \o <<"result = ">> \o func_name \o CallArgs(params),
          Indent(1),
          Indent(1) \o <<"# Assert">>,
          Indent(1) \o <<"assert result is not None">>,
          Indent(1) \o <<"# TODO: Add specific assertions">>,
          Blank,
          Blank,
          <<"def ", "test_">> \o func_name \o <<"_edge_cases", "():">>,
          Doc(Indent(1), "Test edge cases for ", func_name, "."),
          Indent(1) \o <<"# TODO: Implement edge case tests">>,
          Indent(1) \o <<"pass">>,
          Blank,
          Blank,
          <<"def ", "test_">> \o func_name \o <<"_invalid_input", "():">>,
          Doc(Indent(1), "Test ", func_name, " with invalid input."),
          Indent(1) \o <<"# TODO: Test error handling">>,
          Indent(1) \o <<"pass">> >>

\* ''.join(word.capitalize() for word in func_name.split('_'))
CamelName(func_name) ==
    LET words == SplitOn(func_name, "_", <<>>)
        caps == [k \in DOMAIN words |-> Capitalize(words[k])]
        RECURSIVE Cat(_)
        Cat(ws) == IF ws = <<>> THEN <<>> ELSE ws[1] \o Cat(Tail(ws))
    IN  Cat(caps)

GenerateUnittestFunction(func_name, params) ==
    << Blank,
       <<"class ", "Test">> \o CamelName(func_name) \o <<"(unittest.TestCase)", ":">>,
       Doc(Indent(1), "Test cases for ", func_name, " function."),
       Indent(1),
       Indent(1) \o <<"def ", "test_">> \o func_name \o <<"_basic", "(self)", ":">>,
       Doc(Indent(2), "Test basic functionality of ", func_name, "."),
       Indent(2) \o <<"# Arrange">> >>
    \o GenerateSampleParams(params, Indent(2), 2)
    \o << Indent(2),
          Indent(2) \o <<"# Act">>,
          Indent(2) \o <<"result = ">> \o func_name \o CallArgs(params),
          Indent(2),
          Indent(2) \o <<"# Assert">>,
          Indent(2) \o <<"self.assertIsNotNone(result)">>,
          Indent(2) \o <<"# TODO: Add specific assertions">>,
          Indent(1),
          Indent(1) \o <<"def ", "test_">> \o func_name \o <<"_edge_cases", "(self)", ":">>,
          Doc(Indent(2), "Test edge cases for ", func_name, "."),
          Indent(2) \o <<"# TODO: Implement edge case tests">>,
          Indent(2) \o <<"pass">>,
          Indent(1),
          Indent(1) \o <<"def ", "test_">> \o func_name \o <<"_invalid_input", "(self)", ":">>,
          Doc(Indent(2), "Test ", func_name, " with invalid input."),
          Indent(2) \o <<"# TODO: Test error handling">>,
          Indent(2) \o <<"pass">> >>

RECURSIVE Flatten(_)
\* the concatenation of a sequence of texts
Flatten(texts) == IF texts = <<>> THEN <<>> ELSE texts[1] \o Flatten(Tail(texts))

MethodCall(receiver, method) ==
    Indent(2) \o <<"result = ", receiver>> \o method.name \o CallArgs(method.args)

GeneratePytestFile(functions, classes, module_name) ==
    LET imports ==
            << <<"import pytest">>,
               <<"from ">> \o module_name \o <<" import *">>,
               Blank,
               Blank >>
        FuncPart(func) == GeneratePytestFunction(func.name, func.args) \o <<Blank>>
        MethodPart(method) ==
            << Blank,
               Indent(1) \o <<"def ", "test_">> \o method.name \o <<"(self, instance)", ":">>,
               Doc(Indent(2), "Test ", method.name, " method."),
               Indent(2) \o <<"# Arrange">> >>
            \o GenerateSampleParams(method.args, Indent(2), 2)
            \o << Indent(2),
                  Indent(2) \o <<"# Act">>,
                  MethodCall("instance.", method),
                  Indent(2),
                  Indent(2) \o <<"# Assert">>,
                  Indent(2) \o <<"assert result is not None">>,
                  Indent(2) \o <<"# TODO: Add specific assertions">> >>
        ClassPart(cls) ==
            << Blank,
               <<"# Tests for ">> \o cls.name \o <<" class">>,
               Blank,
               <<"class ", "Test">> \o cls.name \o <<":">>,
               Doc(Indent(1), "Test suite for ", cls.name, " class."),
               Indent(1),
               Indent(1) \o <<"@pytest.fixture">>,
               Indent(1) \o <<"def ", "instance", "(self)", ":">>,
               Doc(Indent(2), "Create a ", cls.name, " instance for testing."),
               Indent(2) \o <<"return ">> \o cls.name \o <<"()">>,
               Indent(1) >>
            \o Flatten([k \in DOMAIN cls.methods |-> MethodPart(cls.methods[k])])
    IN  imports
        \o Flatten([k \in DOMAIN functions |-> FuncPart(functions[k])])
        \o Flatten([k \in DOMAIN classes |-> ClassPart(classes[k])])

GenerateUnittestFile(functions, classes, module_name) ==
    LET imports ==
            << <<"import unittest">>,
               <<"from ">> \o module_name \o <<" import *">>,
               Blank,
               Blank >>
        FuncPart(func) == GenerateUnittestFunction(func.name, func.args) \o <<Blank>>
        MethodPart(method) ==
            << Blank,
               Indent(1) \o <<"def ", "test_">> \o method.name \o <<"(self)", ":">>,
               Doc(Indent(2), "Test ", method.name, " method."),
               Indent(2) \o <<"# Arrange">> >>
            \o GenerateSampleParams(method.args, Indent(2), 2)
            \o << Indent(2),
                  Indent(2) \o <<"# Act">>,
                  MethodCall("self.instance.", method),
                  Indent(2),
                  Indent(2) \o <<"# Assert">>,
                  Indent(2) \o <<"self.assertIsNotNone(result)">>,
                  Indent(2) \o <<"# TODO: Add specific assertions">> >>
        ClassPart(cls) ==
            << Blank,
               <<"# Tests for ">> \o cls.name \o <<" class">>,
               Blank,
               <<"class ", "Test">> \o cls.name \o <<"(unittest.TestCase)", ":">>,
               Doc(Indent(1), "Test suite for ", cls.name, " class."),
               Indent(1),
               Indent(1) \o <<"def ", "setUp", "(self)", ":">>,
               Doc(Indent(2), "Set up test fixtures", <<>>, "."),
               Indent(2) \o <<"self.instance = ">> \o cls.name \o <<"()">>,
               Indent(1) >>
            \o Flatten([k \in DOMAIN cls.methods |-> MethodPart(cls.methods[k])])
    IN  imports
        \o Flatten([k \in DOMAIN functions |-> FuncPart(functions[k])])
        \o Flatten([k \in DOMAIN classes |-> ClassPart(classes[k])])
        \o << Blank,
              Blank,
              <<"if __name__ == '__main__':">>,
              Indent(1) \o <<"unittest.main()">> >>

\* generate_test_from_source(source_code, module_name) of a constructed
\* generator: ValueError on a syntax error, else the text of the file.
GenerateTestFromSource(framework, source_code, module_name) ==
    IF ~SyntaxOk(source_code)
    THEN [status |-> "ValueError", text |-> <<>>]
    ELSE LET functions == WalkFunctions(source_code)
             classes == WalkClasses(source_code, 1)
         IN  [status |-> "text",
              text |-> IF framework = <<"p","y","t","e","s","t">>
                       THEN GeneratePytestFile(functions, classes, module_name)
                       ELSE GenerateUnittestFile(functions, classes, module_name)]

\* The characters of the one source file name in use.
Spell(component) ==
    IF component = "calc.py" THEN <<"c","a","l","c",".","p","y">> ELSE <<component>>

RECURSIVE Replace(_, _, _)
\* str.replace(old, new) on a string of characters, left to right
Replace(str, old, new) ==
    IF Len(str) < Len(old) \/ old = <<>> THEN str
    ELSE IF SubSeq(str, 1, Len(old)) = old
    THEN new \o Replace(SubSeq(str, Len(old) + 1, Len(str)), old, new)
    ELSE <<str[1]>> \o Replace(Tail(str), old, new)

\* source_file.replace('.py', '').replace('/', '.'), a leading '.' dropped
ModuleName(source_file) ==
    LET path == Join([k \in DOMAIN source_file |-> Spell(source_file[k])], "/")
        dotted == Replace(Replace(path, <<".","p","y">>, <<>>), <<"/">>, <<".">>)
    IN  IF dotted # <<>> /\ dotted[1] = "." THEN Tail(dotted) ELSE dotted

\* test_generator.generate_test_file(source_file, output_file, framework):
\* how far the call gets, the text it built and the file system it leaves.
AstGenerateTestFileOutcome(source_file, output_file, framework, D, F) ==
    IF ~IsFile(source_file, F)
    THEN [stage |-> "read", status |-> "OSError", text |-> <<>>, dirs |-> D, files |-> F]
    ELSE LET generator == AstConstruct(framework)
         IN  IF generator.status # "ok"
             THEN [stage |-> "construct", status |-> "ValueError", text |-> <<>>,
                   dirs |-> D, files |-> F]
             ELSE LET test_code ==
                          GenerateTestFromSource(generator.framework, F[source_file].text,
                                                 ModuleName(source_file))
                  IN  IF test_code.status # "text"
                      THEN [stage |-> "parse", status |-> "ValueError", text |-> <<>>,
                            dirs |-> D, files |-> F]
                      ELSE LET written == WriteFile(output_file, test_code.text, D, F)
                           IN  [stage |-> "write", status |-> written.status,
                                text |-> test_code.text,
                                dirs |-> written.dirs, files |-> written.files]

-----------------------------------------------------------------------------
(* The persistence operations of the four generators, on one file system.  *)

\* TestCodeGenerator(config).save_to_file(output_path)
SaveToFileCall ==
    \E output_path \in SinkPaths :
        \E out \in {SaveToFile(config, output_path, dirs, files)} :
            /\ sinkOut' = SinkOutcome("save_to_file", "write", out.status, output_path,
                                       Generate(config).text, dirs)
            /\ dirs' = out.dirs
            /\ files' = out.files
            /\ UNCHANGED <<config, result, prev, clock, tfOut, astGen, ta, taOut, toolVars, helperVars>>

\* The code save_test_suite is given.
SuiteCodes == { << <<"import unittest">>, Blank, <<"class ", "TestSuite", ":">> >> }

\* TestGenerator(output_dir).save_test_suite(code, filename)
SaveTestSuiteOutcome(output_dir, code, filename, D, F) ==
    LET made == MakeDirs(output_dir, D, F)
        filepath == output_dir \o <<filename>>
    IN  IF made.status # "ok"
        THEN [stage |-> "makedirs", status |-> made.status, filepath |-> filepath,
              dirs |-> D, files |-> F]
        ELSE LET written == WriteFile(filepath, code, made.dirs, made.files)
             IN  [stage |-> "write", status |-> written.status, filepath |-> filepath,
                  dirs |-> written.dirs, files |-> written.files]

SaveTestSuite ==
    \E code \in SuiteCodes, filename \in SuiteNames :
        \E out \in {SaveTestSuiteOutcome(OutputDir, code, filename, dirs, files)} :
            /\ sinkOut' = SinkOutcome("save_test_suite", out.stage, out.status,
                                       out.filepath, code, dirs)
            /\ dirs' = out.dirs
            /\ files' = out.files
            /\ UNCHANGED <<config, result, prev, clock, tfOut, astGen, ta, taOut, toolVars, helperVars>>

SinkFrameworkArgs ==
    { <<"p","y","t","e","s","t">>, <<"c","o","b","o","l","-","u","n","i","t">> }

AstGenerateTestFile ==
    \E output_file \in SinkPaths, framework \in SinkFrameworkArgs :
        \E out \in {AstGenerateTestFileOutcome(SourcePath, output_file, framework,
                                               dirs, files)} :
            /\ sinkOut' = SinkOutcome("generate_test_file", out.stage, out.status,
                                       output_file, out.text, dirs)
            /\ dirs' = out.dirs
            /\ files' = out.files
            /\ UNCHANGED <<config, result, prev, clock, tfOut, astGen, ta, taOut, toolVars, helperVars>>

\* The source file is there, with one of the source texts, or missing.
InitSink ==
    /\ config \in {c \in DefaultConfigs : c.framework.value = "pytest" /\ c.test_type = "unit"}
    /\ result = NoCall(config)
    /\ prev = NoCall(config)
    /\ clock = 0
    /\ IdleResolve
    /\ IdleTa
    /\ dirs = {}
    /\ files \in { NoFiles }
                 \cup { [NoFiles EXCEPT ![SourcePath] = [exists |-> TRUE, text |-> src]] :
                          src \in SourceTexts }
    /\ sinkOut = NoSink
    /\ IdleTools
    /\ IdleHelpers

NextSink ==
    \/ SaveToFileCall
    \/ SaveTestSuite
    \/ AstGenerateTestFile
    \/ GenerateFunctionTest
    \/ SaveTests

SpecSink == InitSink /\ [][NextSink]_vars

PersistenceOps == {"save_to_file", "save_test_suite", "generate_test_file", "save_tests"}

\* C10 (as claimed): every persistence operation that has its text and is to
\* write a file whose directory does not exist yet creates the directory and
\* succeeds, and the file then holds exactly the text.
C10_DirectoryCreated ==
    (/\ sinkOut.op \in PersistenceOps
     /\ sinkOut.stage \in {"makedirs", "write"}
     /\ ~sinkOut.dirWasThere)
        => /\ sinkOut.status = "ok"
           /\ DirName(sinkOut.path) \in dirs
           /\ files[sinkOut.path] = [exists |-> TRUE, text |-> sinkOut.text]

-----------------------------------------------------------------------------
(* Write failures of save_to_file() and generate_test_file(): the output   *)
(* path goes through a name that is a file, so os.makedirs raises.         *)

InitWrite ==
    /\ config \in DefaultConfigs
    /\ result = NoCall(config)
    /\ prev = NoCall(config)
    /\ clock = 0
    /\ IdleResolve
    /\ IdleTa
    /\ dirs = {}
    /\ files \in { NoFiles,
                   [NoFiles EXCEPT ![BlockerPath] =
                        [exists |-> TRUE, text |-> << <<"notes">> >>]] }
    /\ sinkOut = NoSink
    /\ IdleTools
    /\ IdleHelpers

NextWrite ==
    \/ GenerateCall
    \/ GenerateTestFile
    \/ SaveToFileCall

SpecWrite == InitWrite /\ [][NextWrite]_vars

\* The configuration generate_test_file() builds from its arguments.
ConfigOfCall(out) ==
    [config EXCEPT !.framework = Member(out.framework), !.test_type = out.test_type]

-----------------------------------------------------------------------------
(* test_automation/test_generator.py: TestGenerator, which fills templates.*)
(* A placeholder "{key}" is one segment of a template line.                *)

UNIT_TEST_TEMPLATE ==
    << <<"class ", "Test", "{class_name}", "(unittest.TestCase)", ":">>,
       <<"    ", "\"\"\"", "Test cases for ", "{class_name}", "\"\"\"">>,
       <<"    ">>,
       <<"    ", "def ", "test_", "{test_name}", "(self)", ":">>,
       <<"    ", "    ", "\"\"\"", "Test ", "{test_description}", "\"\"\"">>,
       <<"    ", "    ", "# Arrange">>,
       <<"    ", "    ", "{setup_code}">>,
       <<"    ", "    ">>,
       <<"    ", "    ", "# Act">>,
       <<"    ", "    ", "{action_code}">>,
       <<"    ", "    ">>,
       <<"    ", "    ", "# Assert">>,
       <<"    ", "    ", "{assertion_code}">> >>

\* A value of a test specification: a string, as its segments, or a number.
TextV(segs) == [t |-> "text", i |-> 0, s |-> segs]

\* str(value)
Str(v) == IF v.t = "int" THEN <<ToString(v.i)>> ELSE v.s

\* line.replace(placeholder, value)
RECURSIVE ReplaceSeg(_, _, _)
ReplaceSeg(line, placeholder, value) ==
    IF line = <<>> THEN <<>>
    ELSE (IF line[1] = placeholder THEN value ELSE <<line[1]>>)
            \o ReplaceSeg(Tail(line), placeholder, value)

RECURSIVE FillTemplate(_, _)
\* for key, value in test_spec.items(): generated_code.replace("{key}", str(value))
FillTemplate(generated_code, items) ==
    IF items = <<>> THEN generated_code
    ELSE FillTemplate(
            [k \in DOMAIN generated_code |->
                ReplaceSeg(generated_code[k], "{" \o items[1].k \o "}", Str(items[1].v))],
            Tail(items))

\* generate_test(template_name, test_spec) with the templates registered
GenerateTest(registered, template_name, test_spec) ==
    IF template_name \notin DOMAIN registered
    THEN [status |-> "ValueError", text |-> <<>>]
    ELSE [status |-> "text", text |-> FillTemplate(registered[template_name], test_spec)]

\* The specifications the suites are generated from, as the items of the
\* dictionaries in their order.
UnitSpec(class_name, test_name, description, setup, action, assertion) ==
    << [k |-> "class_name", v |-> TextV(<<class_name>>)],
       [k |-> "test_name", v |-> TextV(<<test_name>>)],
       [k |-> "test_description", v |-> TextV(<<description>>)],
       [k |-> "setup_code", v |-> TextV(<<setup>>)],
       [k |-> "action_code", v |-> TextV(<<action>>)],
       [k |-> "assertion_code", v |-> TextV(<<assertion>>)] >>

AdditionSpec ==
    UnitSpec("Calculator", "addition", "addition of two numbers", "calc = Calculator()",
             "result = calc.add(2, 3)", "self.assertEqual(result, 5)")

SubtractionSpec ==
    UnitSpec("Calculator", "subtraction", "subtraction of two numbers",
             "calc = Calculator()", "result = calc.subtract(5, 3)",
             "self.assertEqual(result, 2)")

ConcatSpec ==
    UnitSpec("StringUtils", "concat", "string concatenation", "utils = StringUtils()",
             "result = utils.concat('a', 'b')", "self.assertEqual(result, 'ab')")

TestSpecs == {AdditionSpec, SubtractionSpec, ConcatSpec}

MaxSpecs == 2

\* The lists of at most MaxSpecs specifications.
SpecLists == UNION { [1..n -> TestSpecs] : n \in 0..MaxSpecs }

TemplateNames == {"unit_test", "api_test"}

SuiteTitles == {"Calculator Test Suite"}

\* datetime.now().strftime("%Y-%m-%d %H:%M:%S"): the time to the second.
Strftime(now) == ToString(now)

SuiteHeader(suite_name, now) ==
    << <<"\"\"\"">>,
       <<suite_name>>,
       <<"Auto-generated on ", Strftime(now)>>,
       <<"\"\"\"">>,
       Blank,
       <<"import unittest">>,
       Blank >>

SuiteFooter ==
    << Blank,
       <<"if __name__ == '__main__':">>,
       <<"    ", "unittest.main()">> >>

RECURSIVE SuiteBody(_)
\* "\n\n".join(generated_tests)
SuiteBody(generated_tests) ==
    IF generated_tests = <<>> THEN <<Blank>>
    ELSE IF Len(generated_tests) = 1 THEN generated_tests[1]
    ELSE generated_tests[1] \o <<Blank>> \o SuiteBody(Tail(generated_tests))

\* A faulty variant of GenerateTestSuiteText: the blocks come out in the
\* reverse of the order of test_specs.
GenerateTestSuiteReversed(registered, template_name, test_specs, suite_name, now) ==
    LET n == Len(test_specs)
        generated_tests ==
            [k \in 1..n |-> GenerateTest(registered, template_name, test_specs[n + 1 - k])]
    IN  IF \E k \in 1..n : generated_tests[k].status # "text"
        THEN [status |-> "ValueError", text |-> <<>>]
        ELSE [status |-> "text",
              text |-> SuiteHeader(suite_name, now)
                       \o SuiteBody([k \in 1..n |-> generated_tests[k].text])
                       \o SuiteFooter]

\* generate_test_suite(template_name, test_specs, suite_name) at time now:
\* the first generate_test that raises ends the call.
GenerateTestSuiteText(registered, template_name, test_specs, suite_name, now) ==
    LET generated_tests ==
            [k \in DOMAIN test_specs |->
                GenerateTest(registered, template_name, test_specs[k])]
    IN  IF \E k \in DOMAIN test_specs : generated_tests[k].status # "text"
        THEN [status |-> "ValueError", text |-> <<>>]
        ELSE [status |-> "text",
              text |-> SuiteHeader(suite_name, now)
                       \o SuiteBody([k \in DOMAIN test_specs |-> generated_tests[k].text])
                       \o SuiteFooter]

\* generator.register_template(name, template)
RegisterTemplate ==
    /\ \E name \in {"unit_test"} :
          templates' = [n \in DOMAIN templates \cup {name} |-> UNIT_TEST_TEMPLATE]
    /\ UNCHANGED <<genVars, suiteOut, batchOut, cliOut, retry, helperVars>>

GenerateTestSuite ==
    /\ \E template_name \in TemplateNames, test_specs \in SpecLists,
          suite_name \in SuiteTitles :
          \E out \in {GenerateTestSuiteText(templates, template_name, test_specs,
                                            suite_name, clock)} :
              suiteOut' = [status |-> out.status, text |-> out.text,
                           template_name |-> template_name, test_specs |-> test_specs,
                           suite_name |-> <<suite_name>>, at |-> clock]
    /\ UNCHANGED <<genVars, templates, batchOut, cliOut, retry, helperVars>>

InitSuite ==
    /\ config \in {c \in DefaultConfigs : c.framework.value = "pytest" /\ c.test_type = "unit"}
    /\ result = NoCall(config)
    /\ prev = NoCall(config)
    /\ clock = 0
    /\ IdleResolve
    /\ ta \in { TaConstruct(f) : f \in {"pytest", "unittest"} }
    /\ taOut = [status |-> "none", text |-> <<>>, cases |-> 0]
    /\ IdleSink
    /\ IdleTools
    /\ IdleHelpers

NextSuite ==
    \/ RegisterTemplate
    \/ GenerateTestSuite
    \/ GenerateFunctionTest
    \/ Tick

SpecSuite == InitSuite /\ [][NextSuite]_vars

\* The same operations at one instant, on a generator for pytest.
InitOrder ==
    /\ config \in {c \in DefaultConfigs : c.framework.value = "pytest" /\ c.test_type = "unit"}
    /\ result = NoCall(config)
    /\ prev = NoCall(config)
    /\ clock = 0
    /\ IdleResolve
    /\ ta = TaConstruct("pytest")
    /\ taOut = [status |-> "none", text |-> <<>>, cases |-> 0]
    /\ IdleSink
    /\ IdleTools
    /\ IdleHelpers

NextOrder ==
    \/ RegisterTemplate
    \/ GenerateTestSuite
    \/ GenerateFunctionTest

SpecOrder == InitOrder /\ [][NextOrder]_vars

\* The positions, in increasing order, of the lines of text that satisfy P.
Positions(text, P(_)) ==
    SelectSeq([i \in DOMAIN text |-> i], LAMBDA i : P(text[i]))

\* The value a specification gives to a key.
Field(test_spec, key) ==
    Str((CHOOSE it \in {test_spec[j] : j \in DOMAIN test_spec} : it.k = key).v)

\* The lines that declare the class and the test method of a specification.
ExpectedDecls(test_spec) ==
    << <<"class ", "Test">> \o Field(test_spec, "class_name") \o <<"(unittest.TestCase)", ":">>,
       <<"    ", "def ", "test_">> \o Field(test_spec, "test_name") \o <<"(self)", ":">> >>

IsDecl(line) == StartsWith(line, <<"class ">>) \/ StartsWith(line, <<"    ", "def ">>)

\* generate_test_suite keeps the order of test_specs: the class and method
\* declarations of the text are those of the specifications, one pair per
\* specification and in their order, after the header and before the footer.
SuiteKeepsOrder ==
    suiteOut.status = "text" =>
        LET text == suiteOut.text
            at == Positions(text, IsDecl)
            n == Len(suiteOut.test_specs)
        IN  /\ Len(at) = 2 * n
            /\ \A k \in 1..n :
                  /\ text[at[2 * k - 1]] = ExpectedDecls(suiteOut.test_specs[k])[1]
                  /\ text[at[2 * k]] = ExpectedDecls(suiteOut.test_specs[k])[2]
            /\ SubSeq(text, 1, 7) = SuiteHeader(suiteOut.suite_name[1], suiteOut.at)
            /\ SubSeq(text, Len(text) - 2, Len(text)) = SuiteFooter
            /\ \A k \in 1..Len(at) : 7 < at[k] /\ at[k] < Len(text) - 2

IsFunctionDef(line) == HasSeg(line, <<"def ", "test_">>)

IsFunctionCall(line) ==
    line # <<>> /\ line[1] \in {"    result = ", "        result = "}

\* generate_function_test numbers its tests 1..n in the order of test_cases:
\* the k-th definition carries the number k and is followed by the call
\* with the inputs of the k-th case.
FunctionTestsKeepOrder ==
    (taOut.status = "returned" /\ taOut.text # <<>>) =>
        \E test_cases \in FunctionCaseLists :
            LET text == taOut.text
                defs == Positions(text, IsFunctionDef)
                calls == Positions(text, IsFunctionCall)
                Args(tc) == IF tc.inputs.dict THEN KwArgs(tc.inputs.items)
                            ELSE Repr(tc.inputs.v)
            IN  /\ Len(defs) = Len(test_cases)
                /\ Len(calls) = Len(test_cases)
                /\ \A k \in 1..Len(test_cases) :
                      /\ HasSeg(text[defs[k]], AddNumbers.name \o <<"_", ToString(k)>>)
                      /\ HasSeg(text[calls[k]], <<"(">> \o Args(test_cases[k]) \o <<")">>)
                      /\ defs[k] < calls[k]
                      /\ k < Len(test_cases) => calls[k] < defs[k + 1]

\* C12: input order is preserved by generate_test_suite (one block per
\* element of test_specs, in the order of test_specs, between the header and
\* the footer) and by generate_function_test (tests numbered 1..n in the
\* order of test_cases).
C12_InputOrderPreserved == SuiteKeepsOrder /\ FunctionTestsKeepOrder

\* A suite of two different specifications and a function test of two
\* cases have been generated.
C12_Witness ==
    /\ suiteOut.status = "text"
    /\ Len(suiteOut.test_specs) = 2
    /\ suiteOut.test_specs[1] # suiteOut.test_specs[2]
    /\ taOut.status = "returned"
    /\ Len(Positions(taOut.text, IsFunctionDef)) = 2

IsClassDecl(line) == StartsWith(line, <<"class ">>)

IsMethodDecl(line) == StartsWith(line, <<"    ", "def ">>)

\* The elements of seq, each kept at its first occurrence only.
RECURSIVE FirstOccurrences(_)
FirstOccurrences(seq) ==
    IF seq = <<>> THEN <<>>
    ELSE LET init == FirstOccurrences(SubSeq(seq, 1, Len(seq) - 1))
             last == seq[Len(seq)]
         IN  IF \E i \in DOMAIN init : init[i] = last THEN init
             ELSE Append(init, last)

\* The method declarations a merged class block of class_name would hold:
\* those of the specifications of that class, in encounter order, each
\* member name once.
MergedMembers(test_specs, class_name) ==
    FirstOccurrences(
        [i \in DOMAIN SelectSeq(test_specs, LAMBDA sp : Field(sp, "class_name") = class_name) |->
            ExpectedDecls(SelectSeq(test_specs,
                LAMBDA sp : Field(sp, "class_name") = class_name)[i])[2]])

\* The method declarations of the class block that starts at line i: those
\* up to the next class declaration.
BlockMembers(text, i) ==
    LET later == {j \in DOMAIN text : j > i /\ IsClassDecl(text[j])}
        stop == IF later = {} THEN Len(text) + 1
                ELSE CHOOSE j \in later : \A m \in later : j <= m
    IN  SelectSeq(SubSeq(text, i + 1, stop - 1), IsMethodDecl)

\* C13: in the text returned by generate_test_suite each class name is
\* declared at most once, and the block of a class holds the tests of all
\* specifications of that class_name, in encounter order, a repeated member
\* name kept at its first occurrence only.
C13_SameSubjectMerged ==
    suiteOut.status = "text" =>
        LET text == suiteOut.text
            classes == Positions(text, IsClassDecl)
        IN  /\ \A a, b \in DOMAIN classes :
                  text[classes[a]] = text[classes[b]] => a = b
            /\ \A k \in DOMAIN suiteOut.test_specs :
                  \E a \in DOMAIN classes :
                      /\ text[classes[a]] = ExpectedDecls(suiteOut.test_specs[k])[1]
                      /\ BlockMembers(text, classes[a]) =
                            MergedMembers(suiteOut.test_specs,
                                          Field(suiteOut.test_specs[k], "class_name"))

\* C14: the text of generate_test_suite does not depend on the current
\* time (the caller has no way to request a timestamp): a call with the
\* arguments and templates of the previous call returns the text the
\* previous call returned, whatever the clock shows.
C14_NoWallClock ==
    [][(/\ suiteOut.status = "text"
        /\ suiteOut'.status = "text"
        /\ templates' = templates
        /\ suiteOut'.template_name = suiteOut.template_name
        /\ suiteOut'.test_specs = suiteOut.test_specs
        /\ suiteOut'.suite_name = suiteOut.suite_name)
       => suiteOut'.text = suiteOut.text]_vars

-----------------------------------------------------------------------------
(* Specifications and source code that name a member twice.                *)

\* A module that defines add twice (the later definition rebinds the name).
DupSource ==
    << DefHeader(<<>>, Chars_add, << <<"a">>, <<"b">> >>),
       <<"    ", "return a + b">>,
       DefHeader(<<>>, Chars_add, << <<"a">>, <<"b">> >>),
       <<"    ", "return b + a">> >>

InitDup ==
    /\ config \in {c \in DefaultConfigs : c.framework.value = "pytest" /\ c.test_type = "unit"}
    /\ result = NoCall(config)
    /\ prev = NoCall(config)
    /\ clock = 0
    /\ IdleResolve
    /\ IdleTa
    /\ dirs = {}
    /\ files \in { [NoFiles EXCEPT ![SourcePath] = [exists |-> TRUE, text |-> src]] :
                     src \in {CalcSource, DupSource} }
    /\ sinkOut = NoSink
    /\ IdleTools
    /\ IdleHelpers

NextDup ==
    \/ RegisterTemplate
    \/ GenerateTestSuite
    \/ AstGenerateTestFile

SpecDup == InitDup /\ [][NextDup]_vars

\* Two elements of seq are equal.
HasRepeat(seq) == \E i, j \in DOMAIN seq : i # j /\ seq[i] = seq[j]

\* The (class_name, test_name) pairs of the specifications.
MemberNames(test_specs) ==
    [i \in DOMAIN test_specs |->
        <<Field(test_specs[i], "class_name"), Field(test_specs[i], "test_name")>>]

\* The names of the functions the source text defines at module level.
DefinedNames(source) ==
    [i \in DOMAIN DefsAt(source, 0, 1) |-> DefsAt(source, 0, 1)[i].name]

IsTestDecl(line) == HasSeg(line, <<"def ">>)

\* C15: duplicate member names are rejected. generate_test_suite given two
\* specifications with the same class_name and test_name fails and yields no
\* text; generate_test_file on source code that defines a function name
\* twice fails and yields no text; no generated text declares the same test
\* twice.
C15_DuplicatesRejected ==
    /\ (suiteOut.status # "none" /\ HasRepeat(MemberNames(suiteOut.test_specs)))
          => suiteOut.status # "text" /\ suiteOut.text = <<>>
    /\ (/\ sinkOut.op = "generate_test_file"
        /\ sinkOut.stage \in {"parse", "write"}
        /\ HasRepeat(DefinedNames(files[SourcePath].text)))
          => sinkOut.status \notin {"ok"} /\ sinkOut.text = <<>>
    /\ sinkOut.op = "generate_test_file" =>
          ~HasRepeat(SelectSeq(sinkOut.text, IsTestDecl))

-----------------------------------------------------------------------------
(* generate_tests.py: the command line.  The TestGenerator it imports      *)
(* (generate_test_class, save_test_file) is not part of the sources at     *)
(* hand; what it does is taken from the specification.                     *)

MaxCases == 1

CliClassNames ==
    { Chars_Calculator, <<"U","s","e","r","S","e","r","v","i","c","e">> }

\* --filename: absent, or given.
CliFilenames == { <<>>, <<"c","u","s","t","o","m",".","p","y">> }

\* --output: the default.
CliOutputDir == <<"tests">>

RECURSIVE Underscored(_, _)
\* re.sub(r'(?<!^)(?=[A-Z])', '_', s): an underscore before every upper-case
\* letter that is not the first character.
Underscored(s, i) ==
    IF i > Len(s) THEN <<>>
    ELSE (IF i > 1 /\ IsUpper(s[i]) THEN <<"_">> ELSE <<>>)
            \o <<s[i]>> \o Underscored(s, i + 1)

SnakeCase(class_name) == StrLower(Underscored(class_name, 1))

RECURSIVE Concat(_)
\* the characters as one path component
Concat(chars) == IF chars = <<>> THEN "" ELSE chars[1] \o Concat(Tail(chars))

\* generator.generate_test_class(class_name, test_cases): one suite container
\* named after the class, one test block per test case.
GenerateTestClass(framework, class_name, test_cases) ==
    << (IF framework = "unittest"
        THEN <<"class ", "Test">> \o class_name \o <<"(unittest.TestCase)", ":">>
        ELSE <<"class ", "Test">> \o class_name \o <<":">>) >>
    \o Flatten([i \in 1..test_cases |->
                  << <<"    ", "def ", "test_", "case_", ToString(i), "(self)", ":">>,
                     <<"    ", "    ", "pass">> >>])

\* generator.save_test_file(code, filename, output_dir): the directory is
\* created and the code written to the file of that name in it.
SaveTestFile(code, filename, output_dir, D, F) ==
    LET made == MakeDirs(output_dir, D, F)
        output_path == output_dir \o <<Concat(filename)>>
    IN  IF made.status # "ok" \/ output_path \in made.dirs
        THEN [status |-> "OSError", output_path |-> output_path, dirs |-> D, files |-> F]
        ELSE [status |-> "ok", output_path |-> output_path, dirs |-> made.dirs,
              files |-> [q \in DOMAIN F \cup {output_path} |->
                            IF q = output_path THEN [exists |-> TRUE, text |-> code]
                            ELSE F[q]]]

\* main(): what a run of the command line leaves behind.
CliOutcome(class_name, test_cases, framework, dry_run, filename, D, F) ==
    LET args == [NoCli EXCEPT !.class_name = class_name, !.test_cases = test_cases,
                              !.framework = framework, !.dry_run = dry_run,
                              !.filename = filename]
    IN  IF test_cases = 0
        THEN [cli |-> [args EXCEPT !.status = "exit", !.exit_code = 1],
              dirs |-> D, files |-> F]
        ELSE IF dry_run
        THEN [cli |-> [args EXCEPT !.status = "printed"], dirs |-> D, files |-> F]
        ELSE LET output_filename ==
                     IF filename # <<>> THEN filename
                     ELSE SnakeCase(class_name) \o <<".", "p", "y">>
                 saved == SaveTestFile(GenerateTestClass(framework, class_name, test_cases),
                                       output_filename, CliOutputDir, D, F)
             IN  IF saved.status # "ok"
                 THEN [cli |-> [args EXCEPT !.status = "exit", !.exit_code = 1,
                                            !.output_filename = output_filename],
                       dirs |-> D, files |-> F]
                 ELSE [cli |-> [args EXCEPT !.status = "saved",
                                            !.output_filename = output_filename,
                                            !.output_path = saved.output_path],
                       dirs |-> saved.dirs, files |-> saved.files]

CliMain ==
    \E class_name \in CliClassNames, test_cases \in 0..MaxCases,
       framework \in {"pytest", "unittest"}, dry_run \in BOOLEAN,
       filename \in CliFilenames :
        \E out \in {CliOutcome(class_name, test_cases, framework, dry_run, filename,
                               dirs, files)} :
            /\ cliOut' = out.cli
            /\ dirs' = out.dirs
            /\ files' = out.files
            /\ UNCHANGED <<config, result, prev, clock, tfOut, astGen, ta, taOut, sinkOut,
                           templates, suiteOut, batchOut, retry, helperVars>>

InitCli ==
    /\ config \in {c \in DefaultConfigs : c.framework.value = "pytest" /\ c.test_type = "unit"}
    /\ result = NoCall(config)
    /\ prev = NoCall(config)
    /\ clock = 0
    /\ IdleResolve
    /\ ta \in { TaConstruct(f) : f \in {"pytest", "unittest"} }
    /\ taOut = [status |-> "none", text |-> <<>>, cases |-> 0]
    /\ IdleSink
    /\ IdleTools
    /\ IdleHelpers

NextCli ==
    \/ CliMain
    \/ GenerateFunctionTest

SpecCli == InitCli /\ [][NextCli]_vars

\* The suite container declared at line i has a body: an indented statement
\* follows before the next statement at module level.
ContainerHasBody(text, i) ==
    \E j \in (i + 1)..Len(text) :
        /\ StartsWith(text[j], <<"    ">>)
        /\ Len(text[j]) > 1
        /\ \A m \in (i + 1)..(j - 1) : text[m] = Blank \/ StartsWith(text[m], <<"    ">>)

\* C16: zero test cases are accepted. A text generate_function_test
\* returns with no test block in it leaves no suite
\* container without a body, and the command line does not reject a
\* specification whose test_cases list is empty.
C16_EmptyAccepted ==
    /\ (taOut.status = "returned" /\ Positions(taOut.text, IsFunctionDef) = <<>>)
          => \A i \in DOMAIN taOut.text :
                IsClassDecl(taOut.text[i]) => ContainerHasBody(taOut.text, i)
    /\ (cliOut.status # "none" /\ cliOut.test_cases = 0) => cliOut.status # "exit"

\* C18: with no --filename the command line saves under the name
\* 'test_' + snake_case(class_name) + '.py'; class_name 'Calculator' gives
\* 'test_calculator.py'.
C18_FilenameDerived ==
    (cliOut.status = "saved" /\ cliOut.filename = <<>>) =>
        /\ cliOut.output_filename =
              <<"t","e","s","t","_">> \o SnakeCase(cliOut.class_name) \o <<".","p","y">>
        /\ cliOut.output_path = CliOutputDir \o <<Concat(cliOut.output_filename)>>
        /\ IsFile(cliOut.output_path, files)
        /\ cliOut.class_name = Chars_Calculator =>
              cliOut.output_path = <<"tests", "test_calculator.py">>

-----------------------------------------------------------------------------
(* example_usage.py: example_save_to_files, a batch of generate_test_file  *)
(* calls.                                                                  *)

BatchFrameworks == {"pytest", "jest", "cobol-unit"}

\* test_configs: the i-th entry is written to the i-th file of the batch.
BatchLists ==
    UNION { { [i \in 1..n |-> [framework |-> f[i], output_path |-> BatchPath(i)]] :
                f \in [1..n -> BatchFrameworks] } : n \in 1..MaxBatch }

RECURSIVE RunBatch(_, _, _, _, _)
\* for config in test_configs: generate_test_file(...).  Nothing catches what
\* generate_test_file raises, so the loop ends at the first entry that fails.
RunBatch(test_configs, i, base, D, F) ==
    IF i > Len(test_configs)
    THEN [status |-> "done", created |-> <<>>, failed |-> 0, dirs |-> D, files |-> F]
    ELSE LET out == GenerateTestFileOutcome(test_configs[i].framework, base.test_type,
                                            base, test_configs[i].output_path, D, F)
         IN  IF out.status # "text"
             THEN [status |-> out.status, created |-> <<>>, failed |-> i,
                   dirs |-> out.dirs, files |-> out.files]
             ELSE LET rest == RunBatch(test_configs, i + 1, base, out.dirs, out.files)
                  IN  [rest EXCEPT !.created = <<i>> \o @]

\* example_save_to_files()
ExampleSaveToFiles ==
    \E test_configs \in BatchLists :
        \E made \in {MakeDirs(BatchDir, dirs, files)} :
            \E out \in {RunBatch(test_configs, 1, config, made.dirs, made.files)} :
                /\ batchOut' = [status |-> out.status, entries |-> test_configs,
                                created |-> out.created, failed |-> out.failed]
                /\ dirs' = out.dirs
                /\ files' = out.files
                /\ UNCHANGED <<config, result, prev, clock, tfOut, astGen, ta, taOut,
                               sinkOut, templates, suiteOut, cliOut, retry, helperVars>>

InitBatch ==
    /\ config \in {c \in DefaultConfigs : c.framework.value = "pytest" /\ c.test_type = "unit"}
    /\ result = NoCall(config)
    /\ prev = NoCall(config)
    /\ clock = 0
    /\ IdleResolve
    /\ IdleTa
    /\ IdleSink
    /\ IdleTools
    /\ IdleHelpers

NextBatch == ExampleSaveToFiles

SpecBatch == InitBatch /\ [][NextBatch]_vars

-----------------------------------------------------------------------------
(* tests/utils/test_helpers.py: retry_on_failure.  One call of the wrapper *)
(* at a time; retry holds the loop's variables, the invocations of the     *)
(* wrapped function made so far (numbered from 1) with what each did, and  *)
(* how the call ended.                                                     *)

MaxAttempts == 4

\* The values of max_attempts the decorator is given.
AttemptArgs == (0 - 1)..MaxAttempts

\* What one invocation of the wrapped function does.
FuncOutcomes ==
    { [kind |-> "return", value |-> "success"],
      [kind |-> "return", value |-> "other"],
      [kind |-> "raise", value |-> "ValueError"],
      [kind |-> "raise", value |-> "RuntimeError"],
      [kind |-> "raise", value |-> "KeyboardInterrupt"] }

\* The exceptions 'except Exception' catches; KeyboardInterrupt derives from
\* BaseException only.
IsException(name) == name \in {"ValueError", "RuntimeError"}

\* The variant that goes on with the loop after a successful invocation.
InvokeIgnoringSuccess(r, outcome) ==
    LET called == [r EXCEPT !.calls = @ + 1, !.outcomes = Append(@, outcome)]
    IN  IF outcome.kind = "return"
        THEN IF r.attempt < r.max_attempts - 1
             THEN [called EXCEPT !.attempt = @ + 1]
             ELSE [called EXCEPT !.status = "returned", !.returned = called.calls]
        ELSE IF ~IsException(outcome.value)
        THEN [called EXCEPT !.status = "raised", !.raised = called.calls]
        ELSE [called EXCEPT !.last_exception = called.calls,
                            !.sleeps = IF r.attempt < r.max_attempts - 1 THEN @ + 1 ELSE @,
                            !.attempt = @ + 1]

\* The variant that sleeps after the final failure too.
InvokeSleepingAlways(r, outcome) ==
    LET called == [r EXCEPT !.calls = @ + 1, !.outcomes = Append(@, outcome)]
    IN  IF outcome.kind = "return"
        THEN [called EXCEPT !.status = "returned", !.returned = called.calls]
        ELSE IF ~IsException(outcome.value)
        THEN [called EXCEPT !.status = "raised", !.raised = called.calls]
        ELSE [called EXCEPT !.last_exception = called.calls,
                            !.sleeps = @ + 1,
                            !.attempt = @ + 1]

\* One turn of the loop: func is invoked; its result is returned, or what it
\* raised is kept and the wrapper sleeps unless this was the last attempt; an
\* exception the except clause does not catch leaves the wrapper.
Invoke(r, outcome) ==
    LET called == [r EXCEPT !.calls = @ + 1, !.outcomes = Append(@, outcome)]
    IN  IF outcome.kind = "return"
        THEN [called EXCEPT !.status = "returned", !.returned = called.calls]
        ELSE IF ~IsException(outcome.value)
        THEN [called EXCEPT !.status = "raised", !.raised = called.calls]
        ELSE [called EXCEPT !.last_exception = called.calls,
                            !.sleeps = IF r.attempt < r.max_attempts - 1 THEN @ + 1 ELSE @,
                            !.attempt = @ + 1]

\* wrapper(*args, **kwargs) is entered: last_exception = None, the loop
\* begins.
RetryCall ==
    /\ retry.status # "running"
    /\ \E max_attempts \in AttemptArgs :
          retry' = [NoRetry EXCEPT !.status = "running", !.max_attempts = max_attempts]
    /\ UNCHANGED <<genVars, templates, suiteOut, batchOut, cliOut, helperVars>>

\* for attempt in range(max_attempts): try: return func(...) except ...
RetryInvoke ==
    /\ retry.status = "running"
    /\ retry.attempt < retry.max_attempts
    /\ \E outcome \in FuncOutcomes : retry' = Invoke(retry, outcome)
    /\ UNCHANGED <<genVars, templates, suiteOut, batchOut, cliOut, helperVars>>

\* raise last_exception, after the loop; raising None is a TypeError.
RetryRaise ==
    /\ retry.status = "running"
    /\ retry.attempt >= retry.max_attempts
    /\ retry' = IF retry.last_exception = 0
                THEN [retry EXCEPT !.status = "TypeError"]
                ELSE [retry EXCEPT !.status = "raised", !.raised = retry.last_exception]
    /\ UNCHANGED <<genVars, templates, suiteOut, batchOut, cliOut, helperVars>>

InitRetry ==
    /\ config \in {c \in DefaultConfigs : c.framework.value = "pytest" /\ c.test_type = "unit"}
    /\ result = NoCall(config)
    /\ prev = NoCall(config)
    /\ clock = 0
    /\ IdleResolve
    /\ IdleTa
    /\ IdleSink
    /\ IdleTools
    /\ IdleHelpers

NextRetry ==
    \/ RetryCall
    \/ RetryInvoke
    \/ RetryRaise

SpecRetry == InitRetry /\ [][NextRetry]_vars

\* C19: when an invocation of the wrapped function succeeds, it is the k-th
\* with 1 <= k <= max_attempts, the wrapper returns its result, the function
\* has been invoked exactly k times and is not invoked again, and the wrapper
\* has slept exactly k-1 times.
C19_SuccessPath ==
    /\ \A k \in DOMAIN retry.outcomes :
          retry.outcomes[k].kind = "return" =>
              /\ retry.status = "returned"
              /\ retry.returned = k
              /\ 1 <= k /\ k <= retry.max_attempts
              /\ retry.calls = k
              /\ Len(retry.outcomes) = k
              /\ retry.sleeps = k - 1
    /\ retry.status = "returned" =>
          /\ retry.returned \in DOMAIN retry.outcomes
          /\ retry.outcomes[retry.returned].kind = "return"

\* The wrapper has returned the result of a third invocation.
C19_Witness ==
    /\ retry.status = "returned"
    /\ retry.returned = 3
    /\ retry.max_attempts = 3
    /\ retry.outcomes[3].value = "success"

\* The call of the wrapper has ended and no invocation returned.
EndedRaising ==
    /\ retry.status \in {"raised", "TypeError"}
    /\ \A i \in DOMAIN retry.outcomes : retry.outcomes[i].kind = "raise"

\* C20 (as claimed): when the wrapped function raised on every invocation
\* the wrapper invoked it exactly max_attempts times, slept exactly
\* max_attempts - 1 times and raises what the last invocation raised.
C20_ExhaustionPath ==
    EndedRaising =>
        /\ retry.calls = retry.max_attempts
        /\ retry.sleeps = retry.max_attempts - 1
        /\ retry.status = "raised"
        /\ retry.raised = retry.calls

\* C20: when every invocation raised an exception derived from Exception the
\* wrapper invoked the function max(max_attempts, 0) times and slept after
\* each failed invocation but the last (max_attempts - 1 times when
\* max_attempts >= 1); if there was an invocation the wrapper raises what the
\* last invocation raised. An exception not derived from Exception is not
\* retried: it is raised by the last invocation made and leaves the wrapper,
\* which has slept once after each invocation before it.
C20_ExhaustionOfExceptions ==
    EndedRaising =>
        IF \A i \in DOMAIN retry.outcomes : IsException(retry.outcomes[i].value)
        THEN /\ retry.calls = (IF retry.max_attempts > 0 THEN retry.max_attempts ELSE 0)
             /\ retry.sleeps = (IF retry.max_attempts > 0 THEN retry.max_attempts - 1 ELSE 0)
             /\ retry.calls >= 1 => retry.status = "raised" /\ retry.raised = retry.calls
        ELSE /\ ~IsException(retry.outcomes[retry.calls].value)
             /\ \A i \in 1..(retry.calls - 1) : IsException(retry.outcomes[i].value)
             /\ retry.calls <= retry.max_attempts
             /\ retry.sleeps = retry.calls - 1
             /\ retry.status = "raised" /\ retry.raised = retry.calls

\* Three attempts, every invocation raised ValueError or RuntimeError, and
\* the wrapper has raised.
C20_Witness ==
    /\ retry.status = "raised"
    /\ retry.max_attempts = 3
    /\ retry.calls = 3
    /\ \A i \in DOMAIN retry.outcomes : IsException(retry.outcomes[i].value)
    /\ retry.outcomes[3].value = "RuntimeError"

-----------------------------------------------------------------------------
(* tests/utils/test_helpers.py: wait_until.  Time is counted in ticks from *)
(* the call; the condition is one that is false before the tick true_from  *)
(* and true from then on (Never: it stays false).                          *)

MaxTimeout == 3

PollIntervals == {1, 2}

Never == MaxTimeout + 3

TrueFroms == {0, 1, 2, Never}

\* condition() at tick now
Condition(w) == w.now >= w.true_from

\* wait_until(condition, timeout, poll_interval): start_time = time.time()
WaitCall ==
    /\ wait.status # "polling"
    /\ \E timeout \in 0..MaxTimeout, poll_interval \in PollIntervals,
          true_from \in TrueFroms :
          wait' = [NoWait EXCEPT !.status = "polling", !.timeout = timeout,
                                 !.poll_interval = poll_interval,
                                 !.true_from = true_from]
    /\ UNCHANGED <<genVars, toolVars, calc, ui, testOut>>

\* One turn of the loop: time is left, the condition is evaluated; True is
\* returned when it holds, otherwise the call sleeps for poll_interval (or a
\* tick longer) and comes back to the test of the loop.
WaitPoll ==
    /\ wait.status = "polling"
    /\ wait.now - wait.start_time < wait.timeout
    /\ LET polled == [wait EXCEPT !.polls = Append(@, Condition(wait))]
       IN  IF Condition(wait)
           THEN wait' = [polled EXCEPT !.status = "returned"]
           ELSE \E late \in {0, 1} :
                   wait' = [polled EXCEPT !.now = @ + wait.poll_interval + late]
    /\ UNCHANGED <<genVars, toolVars, calc, ui, testOut>>

\* The test of the loop fails: raise TimeoutError(message)
WaitTimeout ==
    /\ wait.status = "polling"
    /\ ~(wait.now - wait.start_time < wait.timeout)
    /\ wait' = [wait EXCEPT !.status = "raised"]
    /\ UNCHANGED <<genVars, toolVars, calc, ui, testOut>>

InitWait ==
    /\ config \in {c \in DefaultConfigs : c.framework.value = "pytest" /\ c.test_type = "unit"}
    /\ result = NoCall(config)
    /\ prev = NoCall(config)
    /\ clock = 0
    /\ IdleResolve
    /\ IdleTa
    /\ IdleSink
    /\ IdleTools
    /\ IdleHelpers

NextWait ==
    \/ WaitCall
    \/ WaitPoll
    \/ WaitTimeout

SpecWait == InitWait /\ [][NextWait]_vars

\* C21: wait_until returns True when the condition is met, already at the
\* call or at a later poll, and raises TimeoutError otherwise, for every
\* timeout >= 0: a call whose condition holds at the call returns, a call
\* returns only after a poll that found the condition true, and it raises
\* only after evaluating the condition at least once and finding it false at
\* every poll.
C21_WaitUntil ==
    /\ (wait.status \in {"returned", "raised"} /\ wait.true_from <= wait.start_time)
          => wait.status = "returned"
    /\ wait.status = "returned" =>
          wait.polls # <<>> /\ wait.polls[Len(wait.polls)]
    /\ wait.status = "raised" =>
          /\ wait.polls # <<>>
          /\ \A i \in DOMAIN wait.polls : ~wait.polls[i]

-----------------------------------------------------------------------------
(* example_calculator.py: Calculator.  calc.history is self.history;       *)
(* calc.made lists the entries of the arithmetic calls that returned since *)
(* construction or the last clear_history; calc.held is the list the       *)
(* latest get_history() returned to the caller, calc.shared whether that   *)
(* list is the history object itself.                                      *)

MaxHistory == 3

Operands == {6}

Divisors == {0, 2}

ArithOps == {"add", "subtract", "multiply", "divide"}

\* str() of the result: an int for +, -, *; a float for / (exact here)
ResultStr(op, a, b) ==
    CASE op = "add"      -> ToString(a + b)
      [] op = "subtract" -> ToString(a - b)
      [] op = "multiply" -> ToString(a * b)
      [] op = "divide"   -> ToString(a \div b) \o ".0"

Sign(op) ==
    CASE op = "add" -> " + " [] op = "subtract" -> " - "
      [] op = "multiply" -> " * " [] op = "divide" -> " / "

\* f"{a} + {b} = {result}"
Entry(op, a, b) ==
    ToString(a) \o Sign(op) \o ToString(b) \o " = " \o ResultStr(op, a, b)

\* The variant of the arithmetic methods that records the call before the
\* divisor is looked at.
CalculateRecordingFirst(c, op, a, b) ==
    IF op = "divide" /\ b = 0
    THEN [c EXCEPT !.history = Append(@, ToString(a) \o Sign(op) \o ToString(b)),
                   !.last = [op |-> op, a |-> a, b |-> b, status |-> "ValueError",
                             value |-> "Cannot divide by zero"]]
    ELSE [c EXCEPT !.history = Append(@, Entry(op, a, b)),
                   !.made = Append(@, Entry(op, a, b)),
                   !.last = [op |-> op, a |-> a, b |-> b, status |-> "returned",
                             value |-> ResultStr(op, a, b)]]

\* add, subtract, multiply, divide
Calculate(c, op, a, b) ==
    IF op = "divide" /\ b = 0
    THEN [c EXCEPT !.last = [op |-> op, a |-> a, b |-> b, status |-> "ValueError",
                             value |-> "Cannot divide by zero"]]
    ELSE [c EXCEPT !.history = Append(@, Entry(op, a, b)),
                   !.made = Append(@, Entry(op, a, b)),
                   !.last = [op |-> op, a |-> a, b |-> b, status |-> "returned",
                             value |-> ResultStr(op, a, b)]]

\* The variant of get_history that returns the history list itself.
GetHistoryShared(c) ==
    [c EXCEPT !.held = c.history, !.shared = TRUE,
              !.last = [op |-> "get_history", a |-> 0, b |-> 0, status |-> "returned",
                        value |-> ""]]

\* get_history(): return self.history.copy()
GetHistory(c) ==
    [c EXCEPT !.held = c.history, !.shared = FALSE,
              !.last = [op |-> "get_history", a |-> 0, b |-> 0, status |-> "returned",
                        value |-> ""]]

\* The caller changes the list it got, if at all, before its next call on
\* the calculator; after that call the list is no longer followed.
Dropped(c) == [c EXCEPT !.held = <<>>, !.shared = FALSE]

Arithmetic ==
    /\ Len(calc.history) < MaxHistory
    /\ \E op \in ArithOps, a \in Operands, b \in Divisors :
          calc' = Calculate(Dropped(calc), op, a, b)
    /\ UNCHANGED <<genVars, toolVars, wait, ui, testOut>>

\* clear_history(): self.history = [], a new list
ClearHistory ==
    /\ calc' = [Dropped(calc) EXCEPT !.history = <<>>, !.made = <<>>,
                            !.last = [op |-> "clear_history", a |-> 0, b |-> 0,
                                      status |-> "returned", value |-> ""]]
    /\ UNCHANGED <<genVars, toolVars, wait, ui, testOut>>

GetHistoryCall ==
    /\ calc' = GetHistory(calc)
    /\ UNCHANGED <<genVars, toolVars, wait, ui, testOut>>

\* The caller appends to the list get_history() gave it; the history changes
\* with it when the two are one list.
MutateHeld ==
    /\ calc.last.op = "get_history"
    /\ calc' = [calc EXCEPT !.held = Append(@, "mutated"),
                            !.history = IF calc.shared THEN Append(@, "mutated") ELSE @,
                            !.last = [op |-> "mutate", a |-> 0, b |-> 0,
                                      status |-> "returned", value |-> ""]]
    /\ UNCHANGED <<genVars, toolVars, wait, ui, testOut>>

InitCalc ==
    /\ config \in {c \in DefaultConfigs : c.framework.value = "pytest" /\ c.test_type = "unit"}
    /\ result = NoCall(config)
    /\ prev = NoCall(config)
    /\ clock = 0
    /\ IdleResolve
    /\ IdleTa
    /\ IdleSink
    /\ IdleTools
    /\ IdleHelpers

NextCalc ==
    \/ Arithmetic
    \/ ClearHistory
    \/ GetHistoryCall
    \/ MutateHeld

SpecCalc == InitCalc /\ [][NextCalc]_vars

\* C22: the history holds exactly the entries of the arithmetic calls that
\* returned since construction or the last clear_history, in call order;
\* clear_history empties it; get_history returns its elements and leaves it
\* as it is, and a change the caller makes to the returned list leaves it as
\* it is.
C22_HistoryInvariant ==
    /\ [](calc.history = calc.made)
    /\ [][/\ calc'.last.op = "clear_history" => calc'.history = <<>>
          /\ calc'.last.op = "get_history" =>
                calc'.history = calc.history /\ calc'.held = calc.history
          /\ calc'.last.op = "mutate" => calc'.history = calc.history
          /\ (calc'.last.op \in ArithOps /\ calc'.last.status = "returned") =>
                /\ Len(calc'.history) = Len(calc.history) + 1
                /\ SubSeq(calc'.history, 1, Len(calc.history)) = calc.history
                /\ calc'.history[Len(calc'.history)] =
                      Entry(calc'.last.op, calc'.last.a, calc'.last.b)]_vars

\* The caller has changed the list it got while the history held two
\* entries.
C22_Witness ==
    /\ calc.last.op = "mutate"
    /\ Len(calc.history) = 2
    /\ Len(calc.held) = 3

\* C23: divide(a, 0) raises ValueError('Cannot divide by zero') for every a
\* and leaves the history as it was; the history goes on holding the entries
\* of the calls that returned, as if the failed call had not been made.
C23_DivideByZero ==
    /\ [][(calc'.last.op = "divide" /\ calc'.last.b = 0 /\ calc' # calc) =>
            /\ calc'.last.status = "ValueError"
            /\ calc'.last.value = "Cannot divide by zero"
            /\ calc'.history = calc.history]_vars
    /\ [](calc.history = calc.made)
    /\ []((calc.last.op = "divide" /\ calc.last.b # 0) => calc.last.status = "returned")

\* A division by zero has failed on a calculator whose history was not empty.
C23_Witness ==
    /\ calc.last.op = "divide"
    /\ calc.last.status = "ValueError"
    /\ calc.last.a = 6
    /\ Len(calc.history) = 2

-----------------------------------------------------------------------------
(* TestGenerator.generate_test on specifications whose values hold text    *)
(* that reads like a placeholder.                                          *)

\* A setup snippet that mentions the placeholder of action_code.
NestedSetup == <<"note = 'see ", "{action_code}", "'">>

\* The same six items, setup_code before action_code and after it.
NestedSpec ==
    << [k |-> "class_name", v |-> TextV(<<"Calculator">>)],
       [k |-> "test_name", v |-> TextV(<<"addition">>)],
       [k |-> "test_description", v |-> TextV(<<"addition of two numbers">>)],
       [k |-> "setup_code", v |-> TextV(NestedSetup)],
       [k |-> "action_code", v |-> TextV(<<"result = calc.add(2, 3)">>)],
       [k |-> "assertion_code", v |-> TextV(<<"self.assertEqual(result, 5)">>)] >>

NestedSpecActionFirst ==
    [i \in 1..6 |-> NestedSpec[CASE i = 4 -> 5 [] i = 5 -> 4 [] OTHER -> i]]

FillSpecs == TestSpecs \cup {NestedSpec, NestedSpecActionFirst}

\* generator.generate_test(template_name, test_spec)
GenerateTestCall ==
    /\ \E template_name \in TemplateNames, test_spec \in FillSpecs :
          \E out \in {GenerateTest(templates, template_name, test_spec)} :
              testOut' = [status |-> out.status, text |-> out.text,
                          template_name |-> template_name, test_spec |-> test_spec]
    /\ UNCHANGED <<genVars, toolVars, wait, calc, ui>>

InitFill ==
    /\ config \in {c \in DefaultConfigs : c.framework.value = "pytest" /\ c.test_type = "unit"}
    /\ result = NoCall(config)
    /\ prev = NoCall(config)
    /\ clock = 0
    /\ IdleResolve
    /\ IdleTa
    /\ IdleSink
    /\ IdleTools
    /\ IdleHelpers

NextFill ==
    \/ RegisterTemplate
    \/ GenerateTestCall
    \/ GenerateTestSuite

SpecFill == InitFill /\ [][NextFill]_vars

\* The two specifications hold the same items.
SameItems(a, b) == {a[i] : i \in DOMAIN a} = {b[i] : i \in DOMAIN b}

\* The line of the unit test template that holds the placeholder of key.
LineOf(key) ==
    CHOOSE i \in DOMAIN UNIT_TEST_TEMPLATE : HasSeg(UNIT_TEST_TEMPLATE[i], <<"{" \o key \o "}">>)

\* C24: generate_test inserts every value as given: the line of a code
\* placeholder holds the value of its key, text in it that reads like
\* another placeholder included, and the text is the same for every order of
\* the same items.
C24_InsertedVerbatim ==
    testOut.status = "text" =>
        /\ \A i \in DOMAIN testOut.test_spec :
              testOut.test_spec[i].k \in {"setup_code", "action_code", "assertion_code"} =>
                  testOut.text[LineOf(testOut.test_spec[i].k)] =
                      <<"    ", "    ">> \o Str(testOut.test_spec[i].v)
        /\ \A other \in FillSpecs :
              SameItems(other, testOut.test_spec) =>
                  GenerateTest(templates, testOut.template_name, other).text = testOut.text

-----------------------------------------------------------------------------
(* test_automation.py: totality on the supported frameworks.               *)

\* C25: for the frameworks 'pytest' and 'unittest' and a non-empty list of
\* test cases, generate_function_test, generate_class_test and
\* generate_api_test return a non-empty text with one test block per test
\* case.
C25_TotalOnSupported ==
    (/\ taOut.status = "returned"
     /\ ta.test_framework \in {"pytest", "unittest"}
     /\ taOut.cases > 0)
        => /\ taOut.text # <<>>
           /\ Len(Positions(taOut.text, IsFunctionDef)) = taOut.cases

-----------------------------------------------------------------------------
(* test_generator.py: where the tests of a function are placed.            *)

\* The lines of text that define a test at the given depth.
TestDefs(text, depth) ==
    { text[i] : i \in { j \in DOMAIN text :
                          StartsWith(text[j], Indent(depth) \o <<"def ", "test_">>) } }

FunctionTestSuffixes == {"_basic", "_edge_cases", "_invalid_input"}

\* The definitions of the module-level tests of the public functions that
\* source defines at module level.
TopLevelTestDefs(source) ==
    LET functions == DefsAt(source, 0, 1)
    IN  { <<"def ", "test_">> \o functions[k].name \o <<suffix, "():">> :
            k \in DOMAIN functions, suffix \in FunctionTestSuffixes }

\* The definitions of the tests of the public methods of the classes of
\* source, inside the suites of their classes.
MethodTestDefs(source) ==
    LET classes == WalkClasses(source, 1)
    IN  UNION { { Indent(1) \o <<"def ", "test_">> \o classes[c].methods[k].name
                      \o <<"(self, instance)", ":">> :
                  k \in DOMAIN classes[c].methods } : c \in DOMAIN classes }

\* C26: the pytest file generated from a source holds the three
\* module-level tests of every public function defined at module level and
\* of no other function, and inside the class suites the one test of every
\* public method and of no other: a method yields no module-level test and
\* a name that starts with '_' yields no test.
C26_OnePlacePerFunction ==
    (sinkOut.op = "generate_test_file" /\ sinkOut.text # <<>>) =>
        /\ TestDefs(sinkOut.text, 0) = TopLevelTestDefs(files[SourcePath].text)
        /\ TestDefs(sinkOut.text, 1) = MethodTestDefs(files[SourcePath].text)

-----------------------------------------------------------------------------
(* test_automation_generator.py: the use of 'patch' and its import.        *)

\* A line of text other than the import calls or applies patch.
UsesPatch(text) ==
    \E i \in DOMAIN text : text[i] # MockImport /\ HasSeg(text[i], <<"patch">>)

\* C27: whenever the text of the pytest or unittest renderer uses 'patch',
\* it holds the line 'from unittest.mock import Mock, patch, MagicMock'.
C27_PatchImported ==
    (/\ result.status = "text"
     /\ result.cfg.framework.value \in {"pytest", "unittest"}
     /\ UsesPatch(result.text))
        => \E i \in DOMAIN result.text : result.text[i] = MockImport

-----------------------------------------------------------------------------
(* test_automation.py: the list generated_tests and the file save_tests    *)
(* writes.                                                                 *)

\* The number of lines the first k texts of tests take in the file, each
\* text followed by one newline.
RECURSIVE Offset(_, _)
Offset(tests, k) ==
    IF k = 0 THEN 0 ELSE Offset(tests, k - 1) + Len(tests[k]) + 1

\* written holds the texts of tests in their order, each followed by one
\* newline, and nothing else.
HoldsInOrder(written, tests) ==
    /\ Len(written) = Offset(tests, Len(tests))
    /\ \A k \in DOMAIN tests :
          /\ SubSeq(written, Offset(tests, k - 1) + 1, Offset(tests, k) - 1) = tests[k]
          /\ written[Offset(tests, k)] = Blank

\* A generator for unittest, for which generate_api_test returns the empty
\* text; nothing generated or written yet.
InitAcc ==
    /\ config \in {c \in DefaultConfigs : c.framework.value = "pytest" /\ c.test_type = "unit"}
    /\ result = NoCall(config)
    /\ prev = NoCall(config)
    /\ clock = 0
    /\ IdleResolve
    /\ ta = TaConstruct("unittest")
    /\ taOut = [status |-> "none", text |-> <<>>, cases |-> 0]
    /\ IdleSink
    /\ IdleTools
    /\ IdleHelpers

SpecAcc == InitAcc /\ [][NextTa]_vars

\* C28: every generate_* call appends exactly the text it returns to
\* generated_tests and touches no file; the list changes otherwise only by
\* clear_tests, which empties it; save_tests leaves the list as it is and,
\* when it succeeds, replaces the content of the file by the texts of the
\* list in their order, each followed by one newline.  As the list is empty
\* at construction, it is at any time the list of the texts returned since
\* construction or the last clear_tests.
C28_Accumulator ==
    [][ /\ (taOut' # taOut \/ Len(ta'.generated_tests) > Len(ta.generated_tests))
            => /\ taOut'.status = "returned"
               /\ ta'.generated_tests = Append(ta.generated_tests, taOut'.text)
               /\ files' = files
        /\ (/\ ta'.generated_tests # ta.generated_tests
            /\ Len(ta'.generated_tests) <= Len(ta.generated_tests))
            => /\ ta'.generated_tests = <<>>
               /\ taOut' = taOut
               /\ files' = files
        /\ (sinkOut' # sinkOut \/ files' # files)
            => /\ ta' = ta
               /\ sinkOut'.op = "save_tests"
               /\ IF sinkOut'.status = "ok"
                  THEN /\ files'[sinkOut'.path].exists
                       /\ HoldsInOrder(files'[sinkOut'.path].text, ta.generated_tests)
                       /\ \A p \in DOMAIN files : p # sinkOut'.path => files'[p] = files[p]
                  ELSE files' = files
      ]_vars

\* Two different texts have been generated and save_tests has written them.
C28_Witness ==
    /\ Len(ta.generated_tests) = 2
    /\ ta.generated_tests[1] # <<>>
    /\ ta.generated_tests[1] # ta.generated_tests[2]
    /\ sinkOut.op = "save_tests"
    /\ sinkOut.status = "ok"
    /\ files[sinkOut.path].exists
    /\ files[sinkOut.path].text = sinkOut.text
    /\ Len(sinkOut.text) = Len(ta.generated_tests[1]) + Len(ta.generated_tests[2]) + 2

-----------------------------------------------------------------------------
(* tests/utils/test_helpers.py: retry_on_failure for every max_attempts.   *)

\* C29: for every max_attempts, zero and negative values included, a
\* wrapper that has finished has invoked the wrapped function at least once,
\* and what it raised, if it raised, was raised by one of those invocations.
C29_InvokedAtLeastOnce ==
    retry.status \in {"returned", "raised", "TypeError"} =>
        /\ retry.calls >= 1
        /\ retry.status # "returned" =>
              /\ retry.status = "raised"
              /\ retry.raised \in 1..retry.calls
              /\ retry.outcomes[retry.raised].kind = "raise"

-----------------------------------------------------------------------------
(* test_automation/ui_test_helper.py: the browser a UITestHelper holds.    *)
(* Drivers are numbered in the order of their creation; driver = 0 is None. *)

MaxDrivers == 3

\* The browser names the helper is constructed with.
BrowserArgs ==
    { <<"c","h","r","o","m","e">>, <<"F","i","r","e","f","o","x">>,
      <<"e","d","g","e">>, <<"s","a","f","a","r","i">> }

SupportedBrowsers ==
    { <<"c","h","r","o","m","e">>, <<"f","i","r","e","f","o","x">>, <<"e","d","g","e">> }

Urls == {"https://example.com", "https://example.com/login"}

\* UITestHelper(browser, headless): self.browser = browser.lower(),
\* self.headless = headless, self.driver = None
UiConstruct(browser, headless) ==
    [NoUi EXCEPT !.browser = StrLower(browser), !.headless = headless]

\* start_browser(): a new driver is created and assigned to self.driver,
\* whatever self.driver held, then its window is maximized; ValueError for a
\* browser that is none of the three.
StartBrowser(u) ==
    IF u.browser \in SupportedBrowsers
    THEN [u EXCEPT !.created = @ + 1,
                   !.driver = u.created + 1,
                   !.url = "",
                   !.maximized = @ \cup {u.created + 1},
                   !.last = [op |-> "start_browser", status |-> "ok"]]
    ELSE [u EXCEPT !.last = [op |-> "start_browser", status |-> "ValueError"]]

\* stop_browser(): if self.driver: self.driver.quit(); self.driver = None
StopBrowser(u) ==
    IF u.driver # 0
    THEN [u EXCEPT !.quit = @ \cup {u.driver},
                   !.driver = 0,
                   !.url = "",
                   !.last = [op |-> "stop_browser", status |-> "ok"]]
    ELSE [u EXCEPT !.last = [op |-> "stop_browser", status |-> "ok"]]

\* navigate_to(url): if not self.driver: self.start_browser();
\* self.driver.get(url)
NavigateTo(u, url) ==
    LET started == IF u.driver = 0 THEN StartBrowser(u) ELSE u
    IN  IF started.driver = 0
        THEN [started EXCEPT !.last = [op |-> "navigate_to", status |-> "ValueError"]]
        ELSE [started EXCEPT !.url = url,
                             !.last = [op |-> "navigate_to", status |-> "ok"]]

UiStartBrowser ==
    /\ ui.created < MaxDrivers
    /\ ui' = StartBrowser(ui)
    /\ UNCHANGED <<genVars, toolVars, wait, calc, testOut>>

UiStopBrowser ==
    /\ ui' = StopBrowser(ui)
    /\ UNCHANGED <<genVars, toolVars, wait, calc, testOut>>

UiNavigateTo ==
    /\ ui.created < MaxDrivers \/ ui.driver # 0
    /\ \E url \in Urls : ui' = NavigateTo(ui, url)
    /\ UNCHANGED <<genVars, toolVars, wait, calc, testOut>>

InitUi ==
    /\ config \in {c \in DefaultConfigs : c.framework.value = "pytest" /\ c.test_type = "unit"}
    /\ result = NoCall(config)
    /\ prev = NoCall(config)
    /\ clock = 0
    /\ IdleResolve
    /\ IdleTa
    /\ IdleSink
    /\ IdleTools
    /\ IdleWait
    /\ IdleCalc
    /\ testOut = NoTest
    /\ ui \in { UiConstruct(browser, headless) : browser \in BrowserArgs, headless \in BOOLEAN }

NextUi ==
    \/ UiStartBrowser
    \/ UiNavigateTo
    \/ UiStopBrowser

SpecUi == InitUi /\ [][NextUi]_vars

\* The drivers created and not yet quit.
Live(u) == (1..u.created) \ u.quit

\* C30: at most one driver created by the helper is live at any time; the
\* helper holds no driver after stop_browser, and then every driver it ever
\* created has been quit; navigate_to creates a driver only when none is
\* held; stop_browser quits the held driver and changes nothing but the
\* driver it held.
C30_OneLiveDriver ==
    /\ [](/\ Cardinality(Live(ui)) <= 1
          /\ ui.last.op = "stop_browser" => (ui.driver = 0 /\ Live(ui) = {}))
    /\ [][ /\ (ui' # ui /\ ui'.last.op = "navigate_to" /\ ui'.created # ui.created)
               => ui.driver = 0
           /\ (ui' # ui /\ ui'.last.op = "stop_browser")
               => /\ ui'.created = ui.created
                  /\ ui'.quit = ui.quit \cup ({ui.driver} \ {0})
         ]_vars

=============================================================================
